---- MODULE Spec2Model ----
(***************************************************************************)
(* A model of the concerto-nom parser (src/src/parser).  The crate builds  *)
(* its parsers from nom's combinators, so the model does the same: a       *)
(* parser is a term (tag, alt, tuple, map, ...) written combinator by      *)
(* combinator as in the source, and parse(p, s) runs the term p on the     *)
(* input s the way nom 7.1.3 runs the combinator.  Each specification      *)
(* draws an input and applies the parsers of one grammar family to it.     *)
(*                                                                         *)
(* Strings are TLA+ strings; a character is a string of length one.       *)
(* Numbers wider than 31 bits (u128, i64, the i32 limits) are kept as     *)
(* canonical decimal strings ("0", "12", "-42") and compared digit by     *)
(* digit, so that the widths of the source are the widths of the model.   *)
(* The alphabets are ASCII: `c as u8` in version.rs is the identity there. *)
(* nom's context(label, p) is p: CError keeps no labels.                   *)
(***************************************************************************)
EXTENDS Integers, Sequences, FiniteSets, TLC

VARIABLES input, called, result

vars == <<input, called, result>>

-----------------------------------------------------------------------------
(* Results: nom's IResult.  Ok carries the remaining input and the value,  *)
(* Error carries the input at which the innermost parser failed (CError    *)
(* keeps only that: append and add_context return the inner error).        *)
(* Incomplete is what nom's streaming parsers return at the end of input.  *)
(* Panic is a Rust panic (the call does not return).                       *)

Ok(rest, val) == [kind |-> "Ok", rest |-> rest, val |-> val]

Err(at) == [kind |-> "Error", rest |-> at, val |-> <<>>]

\* Err::Failure: alt and the repeating combinators do not recover from it
Failure(at) == [kind |-> "Failure", rest |-> at, val |-> <<>>]

Incomplete == [kind |-> "Incomplete", rest |-> "", val |-> <<>>]

Panic == [kind |-> "Panic", rest |-> "", val |-> <<>>]

NotCalled == [kind |-> "None", rest |-> "", val |-> <<>>]

IsOk(r) == r.kind = "Ok"

\* Option<T>
None == <<>>

Some(v) == <<v>>

-----------------------------------------------------------------------------
(* Characters and slices *)

Digit == {"0", "1", "2", "3", "4", "5", "6", "7", "8", "9"}

NonZeroDigit == Digit \ {"0"}

Lower == {"a", "b", "c", "d", "e", "f", "g", "h", "i", "j", "k", "l", "m",
          "n", "o", "p", "q", "r", "s", "t", "u", "v", "w", "x", "y", "z"}

Upper == {"A", "B", "C", "D", "E", "F", "G", "H", "I", "J", "K", "L", "M",
          "N", "O", "P", "Q", "R", "S", "T", "U", "V", "W", "X", "Y", "Z"}

Alpha == Lower \cup Upper

AlphaNum == Alpha \cup Digit

\* nom's space0/space1 take spaces and tabs
Space == {" ", "\t"}

\* nom's multispace0/multispace1 take line ends as well
MultiSpace == {" ", "\t", "\r", "\n"}

Take(s, n) == SubSeq(s, 1, n)

Drop(s, n) == SubSeq(s, n + 1, Len(s))

StartsWith(s, t) == Len(s) >= Len(t) /\ Take(s, Len(t)) = t

\* the number of characters of s from the n-th on that are in S
RECURSIVE CountFrom(_, _, _)
CountFrom(S, s, n) ==
    IF n < Len(s) /\ SubSeq(s, n + 1, n + 1) \in S THEN CountFrom(S, s, n + 1) ELSE n

\* the number of leading characters of s that are in S (take_while)
CountWhile(S, s) == CountFrom(S, s, 0)

\* the number of characters of s from the n-th on that are not in S
RECURSIVE CountNotFrom(_, _, _)
CountNotFrom(S, s, n) ==
    IF n < Len(s) /\ SubSeq(s, n + 1, n + 1) \notin S
    THEN CountNotFrom(S, s, n + 1)
    ELSE n

\* the number of leading characters of s that are not in S
CountUntil(S, s) == CountNotFrom(S, s, 0)

\* the position of the first c in s, 0 when there is none
IndexOf(c, s) ==
    LET at == {i \in 1..Len(s) : SubSeq(s, i, i) = c}
    IN  IF at = {} THEN 0 ELSE CHOOSE i \in at : \A j \in at : i <= j

\* the digits s starts with
LeadingDigits(s) == Take(s, CountWhile(Digit, s))

\* the characters of a string, as a set and one by one
chars_of(s) == {SubSeq(s, i, i) : i \in 1..Len(s)}

LowerOf(c) ==
    LET i == IndexOf(c, "ABCDEFGHIJKLMNOPQRSTUVWXYZ")
    IN  IF i = 0 THEN c ELSE SubSeq("abcdefghijklmnopqrstuvwxyz", i, i)

RECURSIVE ToLower(_)
ToLower(s) == IF s = "" THEN "" ELSE LowerOf(Head(s)) \o ToLower(Tail(s))

-----------------------------------------------------------------------------
(* Decimal numbers as canonical strings *)

DigitVal(c) == IndexOf(c, "0123456789") - 1

\* a digit string without its leading zeros ("007" -> "7", "000" -> "0")
RECURSIVE Canon(_)
Canon(d) ==
    IF Len(d) > 1 /\ Head(d) = "0" THEN Canon(Tail(d)) ELSE d

\* a < b for digit strings of the same length
RECURSIVE LexLess(_, _)
LexLess(a, b) ==
    IF a = "" THEN FALSE
    ELSE IF Head(a) # Head(b) THEN DigitVal(Head(a)) < DigitVal(Head(b))
    ELSE LexLess(Tail(a), Tail(b))

\* a > b for canonical digit strings
DecGreater(a, b) ==
    \/ Len(a) > Len(b)
    \/ Len(a) = Len(b) /\ LexLess(b, a)

\* u128::MAX = 2^128 - 1
U128Max == "340282366920938463463374607431768211455"

-----------------------------------------------------------------------------
(* Parser terms: one constructor for each nom combinator the crate uses.   *)
(* complete:: parsers fail at the end of the input, streaming:: parsers    *)
(* return Incomplete there.                                                *)

Tag(t) == [op |-> "tag", t |-> t]

\* tag_no_case(t), t in lower case
TagNoCase(t) == [op |-> "tag_no_case", t |-> t]

\* char(c), one_of(cs): one character of the set
OneOf(S) == [op |-> "one_of", set |-> S]

Char(c) == OneOf({c})

AnyChar == [op |-> "anychar"]

\* take_while(pred), alphanumeric0, space0: zero or more
TakeWhile0(S) == [op |-> "take_while", set |-> S, min |-> 0]

\* digit1, alpha1, space1, multispace1: one or more
TakeWhile1(S) == [op |-> "take_while", set |-> S, min |-> 1]

\* streaming::take_while_m_n(m, n, pred)
TakeWhileMN(m, n, S) == [op |-> "take_while_m_n", set |-> S, min |-> m, max |-> n]

\* streaming::is_not(cs)
IsNot(S) == [op |-> "is_not", set |-> S]

Eof == [op |-> "eof"]

\* character::complete::u128
U128 == [op |-> "u128"]

\* A sequence of parsers run one after the other.  keep says which values
\* are the result: 0 for all of them (tuple, pair), k for the k-th alone
\* (preceded, terminated, delimited), -1 for the first and the third
\* (separated_pair).
Sequence(ps, keep) == [op |-> "seq", ps |-> ps, keep |-> keep]

Tuple(ps) == Sequence(ps, 0)

Pair(p, q) == Sequence(<<p, q>>, 0)

Preceded(p, q) == Sequence(<<p, q>>, 2)

Terminated(p, q) == Sequence(<<p, q>>, 1)

Delimited(p, q, r) == Sequence(<<p, q, r>>, 2)

SeparatedPair(p, sep, q) == Sequence(<<p, sep, q>>, -1)

\* the values of a sequence that its keep selects
Kept(vals, keep) ==
    IF keep = 0 THEN vals
    ELSE IF keep = -1 THEN <<vals[1], vals[3]>>
    ELSE vals[keep]

\* count(p, n)
Count(p, n) == Tuple([i \in 1..n |-> p])

Alt(ps) == [op |-> "alt", ps |-> ps]

Opt(p) == [op |-> "opt", p |-> p]

Recognize(p) == [op |-> "recognize", p |-> p]

Not(p) == [op |-> "not", p |-> p]

\* value(v, p)
Value(v, p) == [op |-> "value", v |-> v, p |-> p]

\* p.map(f), map(p, f): f names a closure of the source, see apply
Map(p, f) == [op |-> "map", p |-> p, f |-> f]

\* map_res(p, f), map_opt(p, f): an Error at the input when f gives none
MapRes(p, f) == [op |-> "map_res", p |-> p, f |-> f]

\* verify(p, f): an Error at the input when f does not hold of the value
Verify(p, f) == [op |-> "verify", p |-> p, f |-> f]

\* p.and_then(q): q runs on the value of p
AndThen(p, q) == [op |-> "and_then", p |-> p, q |-> q]

\* many_till(p, q): the values of p and the value of q
ManyTill(p, q) == [op |-> "many_till", p |-> p, q |-> q]

\* fold_many0(p, init, fold): the values of p, folded by a Map around it
FoldMany0(p) == [op |-> "fold_many", p |-> p, min |-> 0, max |-> -1]

\* fold_many_m_n(min, max, p, init, fold)
FoldManyMN(m, n, p) == [op |-> "fold_many", p |-> p, min |-> m, max |-> n]

\* match p(input) { Ok(..) => Ok(..), Err(_) => Err(Error at input) }
OrErrorAtInput(p) == [op |-> "or_error_at_input", p |-> p]

\* a parser the source writes by hand, see parse
Fn(name) == [op |-> "fn", name |-> name]

-----------------------------------------------------------------------------
(* common/mod.rs: tokens *)

\* recognize(pair(alpha1, alphanumeric0))
token_parser == Recognize(Pair(TakeWhile1(Alpha), TakeWhile0(AlphaNum)))

\* alt((value(true, tag("true")), value(false, tag("false"))))
boolean_value == Alt(<<Value(TRUE, Tag("true")), Value(FALSE, Tag("false"))>>)

-----------------------------------------------------------------------------
(* version.rs *)

ParsedVersion(major, minor, patch) ==
    [major |-> major, minor |-> minor, patch |-> patch]

Version(ver) == [variant |-> "Version", ver |-> ver, pre |-> None]

VersionWithRelease(ver, pre) ==
    [variant |-> "VersionWithRelease", ver |-> ver, pre |-> Some(pre)]

\* digit1.and_then(u128).map(|major| (major,).into())
major_only_version_parser ==
    Map(AndThen(TakeWhile1(Digit), U128), "major_only")

\* tuple((u128, tag("."), u128)).map(|(major, _, minor)| (major, minor).into())
major_minor_version_parser ==
    Map(Tuple(<<U128, Tag("."), U128>>), "major_minor")

\* tuple((u128, tag("."), u128, tag("."), u128)).map(.. (major, minor, patch).into())
major_minor_patch_version_parser ==
    Map(Tuple(<<U128, Tag("."), U128, Tag("."), U128>>), "major_minor_patch")

\* the alternatives with the two-component form first
version_number_parser_minor_first ==
    Alt(<<major_minor_version_parser, major_minor_patch_version_parser,
          major_only_version_parser>>)

version_number_parser ==
    Alt(<<major_minor_patch_version_parser, major_minor_version_parser,
          major_only_version_parser>>)

\* c.is_alphanumeric() || c == '.' || c == '-'
PreReleaseAllowed == AlphaNum \cup {".", "-"}

pre_release_allowed_parser == TakeWhile0(PreReleaseAllowed)

leading_no_zero ==
    Alt(<<Tag("1"), Tag("2"), Tag("3"), Tag("4"), Tag("5"), Tag("6"), Tag("7"),
          Tag("8"), Tag("9"), Tag("-"), Tag("."), TakeWhile1(Alpha)>>)

leading_single_zero == Pair(Tag("0"), Not(Tag("0")))

combined ==
    Alt(<<Recognize(Pair(leading_no_zero, pre_release_allowed_parser)),
          Recognize(Pair(leading_single_zero, pre_release_allowed_parser))>>)

pre_release_parser == Preceded(Tag("-"), combined)

\* version_number_parser.and(alt((pre_release_parser, eof))), then the match
\* on the length of the label
version_parser ==
    Map(Pair(version_number_parser, Alt(<<pre_release_parser, Eof>>)), "version")

\* the closures of version.rs
version_closure(f, v) ==
    CASE f = "major_only" -> ParsedVersion(v, "0", "0")
      [] f = "major_minor" -> ParsedVersion(v[1], v[3], "0")
      [] f = "major_minor_patch" -> ParsedVersion(v[1], v[3], v[5])
      [] f = "version" ->
            IF Len(v[2]) = 0 THEN Version(v[1]) ELSE VersionWithRelease(v[1], v[2])

-----------------------------------------------------------------------------
(* version.rs: pre_release_parser on texts given as sequences of code      *)
(* points, for the characters that are not ASCII                            *)

\* c as u8: the low eight bits of the code point
as_u8(c) == c % 256

\* nom::character::is_alphanumeric(u8)
is_alphanumeric(byte) == byte \in (48..57) \cup (65..90) \cup (97..122)

\* |c: char| is_alphanumeric(c as u8) || allowed.contains(c), allowed = ".-"
allowed_char(c) == is_alphanumeric(as_u8(c)) \/ c \in {46, 45}

\* char::is_alpha of nom: the ASCII letters
is_alpha(c) == c \in (65..90) \cup (97..122)

\* the length of the run of TRUE at the start of flags
RunOf(flags) ==
    CHOOSE n \in 0..Len(flags) :
        /\ \A i \in 1..n : flags[i]
        /\ n = Len(flags) \/ ~flags[n + 1]

\* the first n characters taken: Ok((rest, taken))
TakeChars(text, n) == Ok(SubSeq(text, n + 1, Len(text)), SubSeq(text, 1, n))

\* take_while(...): zero characters is a success
pre_release_allowed_chars(text) ==
    TakeChars(text, RunOf([i \in 1..Len(text) |-> allowed_char(text[i])]))

\* alt((tag("1"), ..., tag("9"), tag("-"), tag("."), alpha1))
leading_no_zero_chars(text) ==
    LET letters == RunOf([i \in 1..Len(text) |-> is_alpha(text[i])])
    IN  IF text # <<>> /\ text[1] \in (49..57) \cup {45, 46} THEN TakeChars(text, 1)
        ELSE IF letters > 0 THEN TakeChars(text, letters)
        ELSE Err(text)

\* pair(tag("0"), not(tag("0")))
leading_single_zero_chars(text) ==
    IF text = <<>> \/ text[1] # 48 THEN Err(text)
    ELSE IF Len(text) > 1 /\ text[2] = 48 THEN Err(Tail(text))
    ELSE TakeChars(text, 1)

\* recognize(pair(leading, pre_release_allowed_parser))
recognize_chars(text, lead) ==
    IF ~IsOk(lead) THEN lead
    ELSE LET rest == pre_release_allowed_chars(lead.rest).rest
         IN  TakeChars(text, Len(text) - Len(rest))

combined_chars(text) ==
    IF IsOk(leading_no_zero_chars(text))
    THEN recognize_chars(text, leading_no_zero_chars(text))
    ELSE recognize_chars(text, leading_single_zero_chars(text))

\* preceded(tag("-"), combined)
pre_release_chars(text) ==
    IF text # <<>> /\ text[1] = 45 THEN combined_chars(Tail(text)) ELSE Err(text)

-----------------------------------------------------------------------------
(* namespace.rs *)

Namespace(name, version) == [name |-> name, version |-> version]

FullyQualifiedName(name, version, type_name) ==
    [name |-> name, version |-> version, type_name |-> type_name]

\* separated_pair(token_parser, tag("@"), version_parser)
\*     .map(|(name, ver)| (name.to_string(), ver))
namespace_version_parser == SeparatedPair(token_parser, Tag("@"), version_parser)

fqn_no_prerelease_parser ==
    Map(Tuple(<<token_parser, Tag("@"), version_number_parser, Tag("."),
                token_parser>>),
        "fqn_no_prerelease")

\* the pre-release grammar without its hyphen (fqn_with_prerelease_parser has
\* taken the hyphen): version.rs of this snapshot does not export it
pre_release_token_parser == combined

\* the first step of prerelease_dot_token_parser: at each position the
\* terminator is tried first, then one character is skipped
dot_token_scan == ManyTill(AnyChar, Pair(Tag("."), token_parser))

\* pre_with_token.len() - token.len() - 1 is a usize subtraction: a negative
\* result panics in a debug build; a release build wraps it to a value past
\* the end of the slice, and the slice panics
end_of_pre(pre_with_token, token) ==
    LET n == Len(pre_with_token) - Len(token) - 1
    IN  IF n < 0 \/ n > Len(pre_with_token) THEN None ELSE Some(n)

fqn_with_prerelease_parser ==
    Map(Tuple(<<token_parser, Tag("@"), version_number_parser, Tag("-"),
                Fn("prerelease_dot_token_parser")>>),
        "fqn_with_prerelease")

fqn_parser == Alt(<<fqn_with_prerelease_parser, fqn_no_prerelease_parser>>)

\* preceded(pair(tag("namespace"), space1), namespace_version_parser)
\*     .map(|parsed_nv| parsed_nv.into())
namespace_parser ==
    Map(Preceded(Pair(Tag("namespace"), TakeWhile1(Space)), namespace_version_parser),
        "namespace")

\* the closures of namespace.rs
namespace_closure(f, v) ==
    CASE f = "fqn_no_prerelease" -> FullyQualifiedName(v[1], Version(v[3]), v[5])
      [] f = "fqn_with_prerelease" ->
            FullyQualifiedName(v[1], VersionWithRelease(v[3], v[5][1]), v[5][2])
      [] f = "namespace" -> Namespace(v[1], v[2])

-----------------------------------------------------------------------------
(* common/numeric.rs *)

positive_decimal_value_signed ==
    Alt(<<Recognize(Pair(OneOf({"+", "-"}), TakeWhile1(Digit))), TakeWhile1(Digit)>>)

\* alt((recognize(pair(char('+'), digit1)), digit1))
positive_decimal_value ==
    Alt(<<Recognize(Pair(Char("+"), TakeWhile1(Digit))), TakeWhile1(Digit)>>)

negative_decimal_value == Recognize(Pair(Char("-"), TakeWhile1(Digit)))

decimal_value == Alt(<<negative_decimal_value, positive_decimal_value>>)

floating_point_value ==
    Alt(<<Recognize(Tuple(<<Char("."), TakeWhile1(Digit),
                            Opt(Tuple(<<OneOf({"e", "E"}), decimal_value>>))>>)),
          Recognize(Tuple(<<decimal_value, Opt(Preceded(Char("."), TakeWhile1(Digit))),
                            OneOf({"e", "E"}), decimal_value>>)),
          Recognize(Tuple(<<decimal_value, Char("."), Opt(TakeWhile1(Digit))>>)),
          Recognize(Tuple(<<Opt(OneOf({"+", "-"})),
                            Alt(<<TagNoCase("infinity"), TagNoCase("inf")>>)>>)),
          Recognize(TagNoCase("nan"))>>)

I32Max == "2147483647"

I32MinMagnitude == "2147483648"

I64Max == "9223372036854775807"

I64MinMagnitude == "9223372036854775808"

\* the digits of a signed decimal text, without leading zeros
Magnitude(text) ==
    Canon(IF Head(text) \in {"+", "-"} THEN Tail(text) ELSE text)

from_str_radix_unchecked(text, max, minMagnitude) ==
    IF Head(text) = "-" /\ Magnitude(text) # "0"
    THEN Some("-" \o Magnitude(text))
    ELSE Some(Magnitude(text))

\* iN::from_str_radix(text, 10) for text = sign? digits: Some(value) as a
\* canonical signed decimal, None on overflow
from_str_radix(text, max, minMagnitude) ==
    IF Head(text) = "-"
    THEN IF DecGreater(Magnitude(text), minMagnitude) THEN None
         ELSE IF Magnitude(text) = "0" THEN Some("0")
         ELSE Some("-" \o Magnitude(text))
    ELSE IF DecGreater(Magnitude(text), max) THEN None
    ELSE Some(Magnitude(text))

\* map_res(positive_decimal_value, i32::from_str_radix), then the match that
\* reports every failure at the input
positive_integer_value ==
    OrErrorAtInput(MapRes(positive_decimal_value, "i32::from_str_radix"))

integer_value == OrErrorAtInput(MapRes(decimal_value, "i32::from_str_radix"))

long_value == OrErrorAtInput(MapRes(decimal_value, "i64::from_str_radix"))

\* the value of a digit string of a few digits
RECURSIVE DecToInt(_)
DecToInt(d) ==
    IF d = "" THEN 0
    ELSE 10 * DecToInt(Take(d, Len(d) - 1)) + DigitVal(SubSeq(d, Len(d), Len(d)))

\* the value of a signed digit string of a few digits, 0 for the empty one
SignedToInt(e) ==
    IF e = "" THEN 0
    ELSE IF Head(e) = "-" THEN 0 - DecToInt(Tail(e))
    ELSE IF Head(e) = "+" THEN DecToInt(Tail(e))
    ELSE DecToInt(e)

\* the number of zeros a digit string ends with
RECURSIVE TrailingZeros(_)
TrailingZeros(d) ==
    IF d # "" /\ SubSeq(d, Len(d), Len(d)) = "0"
    THEN 1 + TrailingZeros(Take(d, Len(d) - 1))
    ELSE 0

\* (-1)^neg * digits * 10^exp with the trailing zeros of digits moved into exp
Finite(neg, digits, exp, tz) ==
    IF tz = Len(digits)
    THEN [class |-> "finite", neg |-> neg, mant |-> "0", exp |-> 0]
    ELSE [class |-> "finite", neg |-> neg,
          mant |-> Take(digits, Len(digits) - tz), exp |-> exp + tz]

\* the fraction digits of a text that follows the integer digits
FractionOf(r) == IF r # "" /\ Head(r) = "." THEN LeadingDigits(Tail(r)) ELSE ""

\* the exponent text of what follows the integer and fraction digits
ExponentOf(r) == IF r = "" THEN "" ELSE Tail(r)

\* an unsigned finite literal: integer digits, r the text after them
FiniteOf(neg, int, frac, r) ==
    Finite(neg, Canon(int \o frac),
           SignedToInt(ExponentOf(IF r # "" /\ Head(r) = "."
                                  THEN Drop(r, 1 + Len(frac)) ELSE r)) - Len(frac),
           TrailingZeros(Canon(int \o frac)))

\* an unsigned literal
UnsignedF64(neg, body) ==
    IF ToLower(body) \in {"inf", "infinity"}
    THEN [class |-> "inf", neg |-> neg, mant |-> "", exp |-> 0]
    ELSE IF ToLower(body) = "nan"
    THEN [class |-> "nan", neg |-> neg, mant |-> "", exp |-> 0]
    ELSE FiniteOf(neg, LeadingDigits(body),
                  FractionOf(Drop(body, Len(LeadingDigits(body)))),
                  Drop(body, Len(LeadingDigits(body))))

\* f64::from_str on a lexed literal, as the decimal it denotes:
\* (-1)^neg * mant * 10^exp with mant free of leading and trailing zeros.
\* Exact for the literals of the model (at most 15 significant digits and
\* exponents within the range of f64), where f64::from_str is injective.
f64_from_str(text) ==
    UnsignedF64(Head(text) = "-",
                IF Head(text) \in {"+", "-"} THEN Tail(text) ELSE text)

double_value == OrErrorAtInput(MapRes(floating_point_value, "f64::from_str"))

\* the closures of numeric.rs
numeric_closure(f, v) ==
    CASE f = "i32::from_str_radix" -> from_str_radix(v, I32Max, I32MinMagnitude)
      [] f = "i64::from_str_radix" -> from_str_radix(v, I64Max, I64MinMagnitude)
      [] f = "f64::from_str" -> Some(f64_from_str(v))

-----------------------------------------------------------------------------
(* common/string.rs.  A decoded String is the sequence of its code points. *)

\* the printable ASCII characters of codes 32 to 95, and of 97 to 126
PrintableLow ==
    " !\"#$%&'()*+,-./0123456789:;<=>?@ABCDEFGHIJKLMNOPQRSTUVWXYZ[\\]^_"

PrintableHigh == "abcdefghijklmnopqrstuvwxyz{|}~"

\* the code point of an ASCII character
Ord(c) ==
    IF c = "\t" THEN 9
    ELSE IF c = "\n" THEN 10
    ELSE IF c = "\r" THEN 13
    ELSE IF IndexOf(c, PrintableLow) # 0 THEN 31 + IndexOf(c, PrintableLow)
    ELSE 96 + IndexOf(c, PrintableHigh)

\* the code points of a slice
Ords(s) == [i \in 1..Len(s) |-> Ord(SubSeq(s, i, i))]

HexDigit == Digit \cup {"a", "b", "c", "d", "e", "f", "A", "B", "C", "D", "E", "F"}

HexDigitVal(c) ==
    IF c \in Digit THEN DigitVal(c) ELSE 9 + IndexOf(LowerOf(c), "abcdef")

\* u32::from_str_radix(h, 16) for at most six hex digits
RECURSIVE HexVal(_)
HexVal(h) ==
    IF h = "" THEN 0
    ELSE 16 * HexVal(Take(h, Len(h) - 1)) + HexDigitVal(SubSeq(h, Len(h), Len(h)))

MaxHexDigits == 6

\* preceded(char('u'), delimited(char('{'), take_while_m_n(1, 6, hex), char('}')))
delimited_hex ==
    Preceded(Char("u"),
             Delimited(Char("{"), TakeWhileMN(1, MaxHexDigits, HexDigit), Char("}")))

\* map_res(delimited_hex, u32::from_str_radix), every failure reported as an
\* Error at the input
u32_value == OrErrorAtInput(MapRes(delimited_hex, "u32::from_str_radix"))

SurrogateFirst == 55296

SurrogateLast == 57343

CharMax == 1114111

char_from_u32_any(val) == Some(val)

\* std::char::from_u32
char_from_u32(val) ==
    IF val > CharMax \/ (val >= SurrogateFirst /\ val <= SurrogateLast)
    THEN None
    ELSE Some(val)

unicode_char == MapRes(u32_value, "char::from_u32")

escaped_char ==
    Preceded(Char("\\"),
             Alt(<<unicode_char,
                   Value(10, Char("n")),
                   Value(13, Char("r")),
                   Value(9, Char("t")),
                   Value(8, Char("b")),
                   Value(12, Char("f")),
                   Value(Ord("\\"), Char("\\")),
                   Value(Ord("/"), Char("/")),
                   Value(Ord("\""), Char("\"")),
                   Value(Ord("'"), Char("'"))>>))

escaped_whitespace == Preceded(Char("\\"), TakeWhile1(MultiSpace))

\* verify(is_not(stops), |s| !s.is_empty())
literal(stops) == Verify(IsNot(stops), "is_not_empty")

\* a fragment is the code points it adds to the string: those of the literal,
\* the escaped character, none for escaped whitespace
fragment(stops) ==
    Alt(<<Map(literal(stops), "Literal"),
          Map(escaped_char, "Escaped"),
          Value(<<>>, escaped_whitespace)>>)

\* fold_many0(fragment, String::new, push)
build_string(stops) == Map(FoldMany0(fragment(stops)), "push")

single_quoted_string_either_quote ==
    Delimited(Char("'"), build_string({"'", "\"", "\\"}), OneOf({"'", "\""}))

single_quoted_string ==
    Delimited(Char("'"), build_string({"'", "\\"}), Char("'"))

double_quoted_string ==
    Delimited(Char("\""), build_string({"\"", "\\"}), Char("\""))

string_value == Alt(<<single_quoted_string, double_quoted_string>>)

regex_value_backslash_literal ==
    Delimited(Char("/"), build_string({"/"}), Char("/"))

regex_value == Delimited(Char("/"), build_string({"/", "\\"}), Char("/"))

\* the concatenation of a sequence of sequences
RECURSIVE Concat(_)
Concat(ss) == IF ss = <<>> THEN <<>> ELSE Head(ss) \o Concat(Tail(ss))

\* the closures of string.rs
string_closure(f, v) ==
    CASE f = "u32::from_str_radix" -> Some(HexVal(v))
      [] f = "char::from_u32" -> char_from_u32(v)
      [] f = "is_not_empty" -> v # ""
      [] f = "Literal" -> Ords(v)
      [] f = "Escaped" -> <<v>>
      [] f = "push" -> Concat(v)

-----------------------------------------------------------------------------
(* common/datetime.rs *)

AnyDigit == OneOf(chars_of("1234567890"))

year == Recognize(Count(AnyDigit, 4))

month_of_calendar ==
    Recognize(Alt(<<Pair(Char("0"), OneOf(chars_of("123456789"))),
                    Pair(Char("1"), OneOf(chars_of("012")))>>))

month ==
    Recognize(Alt(<<Pair(Char("0"), AnyDigit), Pair(Char("1"), AnyDigit)>>))

day ==
    Recognize(Alt(<<Pair(OneOf(chars_of("012")), AnyDigit),
                    Pair(Char("3"), OneOf(chars_of("01")))>>))

hour ==
    Recognize(Alt(<<Pair(OneOf(chars_of("01")), AnyDigit),
                    Pair(Char("2"), OneOf(chars_of("0123")))>>))

minute == Recognize(Pair(OneOf(chars_of("012345")), AnyDigit))

second == Recognize(Pair(OneOf(chars_of("012345")), AnyDigit))

year_month_day == Recognize(Tuple(<<year, Char("-"), month, Char("-"), day>>))

hour_minute_second ==
    Recognize(Tuple(<<hour, Char(":"), minute, Char(":"), second>>))

datetime_value_date_only == year_month_day

\* the nine forms, the longest first; .map(|s| s.to_string()) keeps the text
datetime_value ==
    LET ymd == year_month_day
        hms == <<year_month_day, Char("T"), hour_minute_second>>
        zone == <<OneOf(chars_of("+-")), hour, Char(":"), minute>>
        ymd_hms == Recognize(Tuple(hms \o <<Char("Z")>>))
        ymd_hms_hm == Recognize(Tuple(hms \o zone))
        ymd_hms_s == Recognize(Tuple(hms \o <<Char("."), AnyDigit, Char("Z")>>))
        ymd_hms_ss ==
            Recognize(Tuple(hms \o <<Char("."), AnyDigit, AnyDigit, Char("Z")>>))
        ymd_hms_sss ==
            Recognize(Tuple(hms \o <<Char("."), AnyDigit, AnyDigit, AnyDigit, Char("Z")>>))
        ymd_hms_hm_s == Recognize(Tuple(hms \o <<Char("."), AnyDigit>> \o zone))
        ymd_hms_hm_ss ==
            Recognize(Tuple(hms \o <<Char("."), AnyDigit, AnyDigit>> \o zone))
        ymd_hms_hm_sss ==
            Recognize(Tuple(hms \o <<Char("."), AnyDigit, AnyDigit, AnyDigit>> \o zone))
    IN  Alt(<<ymd_hms_hm_sss, ymd_hms_hm_ss, ymd_hms_hm_s, ymd_hms_sss, ymd_hms_ss,
              ymd_hms_s, ymd_hms_hm, ymd_hms, ymd>>)

-----------------------------------------------------------------------------
(* error.rs *)

\* the text of an error position is a sequence of code points here, so that
\* the bytes of its UTF-8 form can be counted

\* the number of bytes of a character in UTF-8
len_utf8(c) ==
    IF c < 128 THEN 1 ELSE IF c < 2048 THEN 2 ELSE IF c < 65536 THEN 3 ELSE 4

RECURSIVE ByteLen(_)
\* str::len: the bytes of a text
ByteLen(text) ==
    IF text = <<>> THEN 0 ELSE len_utf8(Head(text)) + ByteLen(Tail(text))

\* str::is_char_boundary
is_char_boundary(text, index) ==
    \E k \in 0..Len(text) : ByteLen(SubSeq(text, 1, k)) = index

\* String::truncate asserts that new_len, when it is within the text, lies
\* on a character boundary
truncate_panics(text, new_len) ==
    new_len <= ByteLen(text) /\ ~is_char_boundary(text, new_len)

\* String::truncate: nothing to do when new_len is beyond the end
truncate(text, new_len) ==
    IF new_len > ByteLen(text) THEN text
    ELSE SubSeq(text, 1, CHOOSE k \in 0..Len(text) :
                            ByteLen(SubSeq(text, 1, k)) = new_len)

FoundBytes == 5

\* the variants of CErrorKind
NomError(kind) == [variant |-> "NomError", kind |-> kind]

ExpectedFound(expected, found) ==
    [variant |-> "ExpectedFound", expected |-> expected, found |-> found]

CError(code, at) == [code |-> code, input |-> at]

\* ParseError::from_error_kind
from_error_kind(at, kind) ==
    IF kind = "Space"
    THEN IF truncate_panics(at, FoundBytes) THEN Panic
         ELSE CError(ExpectedFound("Space", truncate(at, FoundBytes)), at)
    ELSE CError(NomError(kind), at)

\* ParseError::append
append(at, kind, other) == other

\* ContextError::add_context, which CError does not override
add_context(at, ctx, other) == other

RECURSIVE context(_, _, _)
\* nom's context(label, f) around each rule of labels, the outermost first,
\* when the innermost rule fails with inner at the position at
context(labels, at, inner) ==
    IF labels = <<>> THEN inner
    ELSE add_context(at, Head(labels), context(Tail(labels), at, inner))

-----------------------------------------------------------------------------
(* common/keywords.rs *)

default == Tag("default")

length == Tag("length")

range == Tag("range")

regex == Tag("regex")

optional == Tag("optional")

-----------------------------------------------------------------------------
(* property/internal.rs *)

space0 == TakeWhile0(Space)

space1 == TakeWhile1(Space)

\* tuple((alt((array_type, single_type)), token)): (name, is_array)
primitive_property(type_tag) ==
    LET single_type ==
            Value("Single",
                  Tuple(<<space0, Char("o"), space0, Tag(type_tag), space0>>))
        array_type ==
            Value("Array",
                  Tuple(<<space0, Char("o"), space0, Tag(type_tag), space0,
                          Char("["), space0, Char("]"), space0>>))
    IN  Map(Tuple(<<Alt(<<array_type, single_type>>), token_parser>>),
            "primitive_property")

Ranged(start, end) == [start |-> start, end |-> end]

\* the separator with its comma optional
comma_separator_optional == Tuple(<<space0, Opt(Char(",")), space0>>)

\* tuple((space0, char(','), space0))
comma_separator == Tuple(<<space0, Char(","), space0>>)

only_start(parser) == Map(Terminated(parser, comma_separator), "only_start")

only_end(parser) == Map(Preceded(comma_separator, parser), "only_end")

full(parser) == Map(SeparatedPair(parser, comma_separator, parser), "full")

\* tuple((keyword, space0, char('='), space0, char('['), space0))
ranged_open(keyword) ==
    Tuple(<<keyword, space0, Char("="), space0, Char("["), space0>>)

ranged_parser(keyword, parser) ==
    Delimited(ranged_open(keyword),
              Alt(<<full(parser), only_start(parser), only_end(parser)>>),
              Tuple(<<space0, Char("]")>>))

\* the closures of internal.rs
internal_closure(f, v) ==
    CASE f = "primitive_property" -> [name |-> v[2], is_array |-> v[1] = "Array"]
      [] f = "only_start" -> Ranged(Some(v), None)
      [] f = "only_end" -> Ranged(None, Some(v))
      [] f = "full" -> Ranged(Some(v[1]), Some(v[2]))

-----------------------------------------------------------------------------
(* property/*_property.rs *)

\* a metaproperty: the variant of the type's MetaProperty enum and its value
MetaProperty(variant, value) == [variant |-> variant, value |-> value]

\* match meta_prop { Default(x) => prop.default_value = Some(x), ... }
set_meta(prop, meta) ==
    CASE meta.variant = "Default" -> [prop EXCEPT !.default_value = Some(meta.value)]
      [] meta.variant = "Regex" -> [prop EXCEPT !.regex_validator = Some(meta.value)]
      [] meta.variant = "Length" -> [prop EXCEPT !.length_validator = Some(meta.value)]
      [] meta.variant = "Domain" -> [prop EXCEPT !.domain_validator = Some(meta.value)]
      [] meta.variant = "Optional" -> [prop EXCEPT !.is_optional = TRUE]

\* for meta_prop in meta_props { ... }
RECURSIVE set_metas(_, _)
set_metas(prop, meta_props) ==
    IF meta_props = <<>> THEN prop
    ELSE set_metas(set_meta(prop, Head(meta_props)), Tail(meta_props))

\* preceded(tuple((keywords::default, space0, char('='), space0)), value)
default_value(value) == Preceded(Tuple(<<default, space0, Char("="), space0>>), value)

\* string_property.rs

string_default_value == default_value(string_value)

string_regex_validator ==
    Map(Preceded(Tuple(<<regex, space0, Char("="), space0>>), regex_value),
        "StringRegexValidator")

string_length_validator ==
    Map(ranged_parser(length, positive_integer_value), "StringLengthValidator")

StringProperty(h) ==
    [class |-> "StringProperty", name |-> h.name, default_value |-> None,
     regex_validator |-> None, length_validator |-> None, is_optional |-> FALSE,
     is_array |-> h.is_array]

string_property_meta ==
    LET length_meta == Map(Preceded(space1, string_length_validator), "Length")
        regex_meta == Map(Preceded(space1, string_regex_validator), "Regex")
        default_meta == Map(Preceded(space1, string_default_value), "Default")
        optional_meta == Map(Preceded(space1, optional), "Optional")
    IN  Alt(<<length_meta, regex_meta, default_meta, optional_meta>>)

\* the fold of metaproperties run five times
string_property_five_metas ==
    Map(Pair(primitive_property("String"), FoldManyMN(0, 5, string_property_meta)),
        "StringProperty")

string_property ==
    Map(Pair(primitive_property("String"), FoldManyMN(0, 4, string_property_meta)),
        "StringProperty")

\* boolean_property.rs

boolean_default_value == default_value(boolean_value)

BooleanProperty(h) ==
    [class |-> "BooleanProperty", name |-> h.name, default_value |-> None,
     is_optional |-> FALSE, is_array |-> h.is_array]

boolean_property_meta ==
    LET default_meta == Map(Preceded(space1, boolean_default_value), "Default")
        optional_meta == Map(Preceded(space1, optional), "Optional")
    IN  Alt(<<default_meta, optional_meta>>)

boolean_property ==
    Map(Pair(primitive_property("Boolean"), FoldManyMN(0, 2, boolean_property_meta)),
        "BooleanProperty")

\* integer_property.rs

integer_default_value == default_value(integer_value)

integer_domain_validator ==
    Map(ranged_parser(range, integer_value), "DomainValidator")

IntegerProperty(h) ==
    [name |-> h.name, default_value |-> None, domain_validator |-> None,
     is_optional |-> FALSE]

integer_property_meta ==
    LET domain_meta == Map(Preceded(space1, integer_domain_validator), "Domain")
        default_meta == Map(Preceded(space1, integer_default_value), "Default")
        optional_meta == Map(Preceded(space1, optional), "Optional")
    IN  Alt(<<domain_meta, default_meta, optional_meta>>)

integer_property ==
    Map(Pair(primitive_property("Integer"), FoldManyMN(0, 3, integer_property_meta)),
        "IntegerProperty")

\* long_property.rs

long_default_value == default_value(long_value)

long_domain_validator == Map(ranged_parser(range, long_value), "DomainValidator")

LongProperty(h) ==
    [name |-> h.name, default_value |-> None, domain_validator |-> None]

long_property_meta ==
    LET domain_meta == Map(Preceded(space1, long_domain_validator), "Domain")
        default_meta == Map(Preceded(space1, long_default_value), "Default")
    IN  Alt(<<domain_meta, default_meta>>)

long_property ==
    Map(Pair(primitive_property("Long"), FoldManyMN(0, 2, long_property_meta)),
        "LongProperty")

\* double_property.rs

\* the default with the blanks after its value taken as well
double_default_value_trailing_blanks == Terminated(default_value(double_value), space0)

double_default_value == default_value(double_value)

double_domain_validator ==
    Map(ranged_parser(range, double_value), "DomainValidator")

DoubleProperty(h) ==
    [class |-> "DoubleProperty", name |-> h.name, default_value |-> None,
     domain_validator |-> None, is_optional |-> FALSE, is_array |-> h.is_array]

double_property_meta ==
    LET domain_meta == Map(Preceded(space1, double_domain_validator), "Domain")
        default_meta == Map(Preceded(space1, double_default_value), "Default")
        optional_meta == Map(Preceded(space1, optional), "Optional")
    IN  Alt(<<domain_meta, default_meta, optional_meta>>)

double_property ==
    Map(Pair(primitive_property("Double"), FoldManyMN(0, 3, double_property_meta)),
        "DoubleProperty")

\* datetime_property.rs

datetime_default_value == default_value(datetime_value)

DateTimeProperty(h) ==
    [class |-> "DateTimeProperty", name |-> h.name, default_value |-> None,
     is_optional |-> FALSE, is_array |-> h.is_array]

datetime_property_meta ==
    LET default_meta == Map(Preceded(space1, datetime_default_value), "Default")
        optional_meta == Map(Preceded(space1, optional), "Optional")
    IN  Alt(<<default_meta, optional_meta>>)

datetime_property ==
    Map(Pair(primitive_property("DateTime"), FoldManyMN(0, 2, datetime_property_meta)),
        "DateTimeProperty")

\* the closures of the property parsers: the variants of the MetaProperty
\* enums, the validators' From<Ranged<T>>, and the builders of the properties
property_closure(f, v) ==
    CASE f \in {"Length", "Regex", "Default", "Domain"} -> MetaProperty(f, v)
      [] f = "Optional" -> MetaProperty(f, <<>>)
      [] f = "StringRegexValidator" -> [pattern |-> v, flags |-> <<>>]
      [] f = "StringLengthValidator" -> [min_length |-> v.start, max_length |-> v.end]
      [] f = "DomainValidator" -> [lower |-> v.start, upper |-> v.end]
      [] f = "StringProperty" -> set_metas(StringProperty(v[1]), v[2])
      [] f = "BooleanProperty" -> set_metas(BooleanProperty(v[1]), v[2])
      [] f = "IntegerProperty" -> set_metas(IntegerProperty(v[1]), v[2])
      [] f = "LongProperty" -> set_metas(LongProperty(v[1]), v[2])
      [] f = "DoubleProperty" -> set_metas(DoubleProperty(v[1]), v[2])
      [] f = "DateTimeProperty" -> set_metas(DateTimeProperty(v[1]), v[2])

-----------------------------------------------------------------------------
(* declaration.rs *)

\* keywords.rs
concept == Tag("concept")

multispace0 == TakeWhile0(MultiSpace)

\* nom's line_ending: "\n" or "\r\n"
line_ending == Alt(<<Tag("\n"), Tag("\r\n")>>)

\* property::Property of declaration.rs: a property whose type is another
\* concept
ImportedProperty(class, name, is_array, is_optional) ==
    [class |-> class, name |-> name, is_array |-> is_array,
     is_optional |-> is_optional]

\* property::imported_property: the property line of a primitive type with
\* the token of the referenced type as the tag word, and optional as the
\* only metaproperty
imported_property ==
    LET single_type ==
            Map(Tuple(<<space0, Char("o"), space0, token_parser, space0>>),
                "imported_single")
        array_type ==
            Map(Tuple(<<space0, Char("o"), space0, token_parser, space0,
                        Char("["), space0, Char("]"), space0>>),
                "imported_array")
        optional_meta == Preceded(space1, optional)
    IN  Map(Tuple(<<Alt(<<array_type, single_type>>), token_parser,
                    FoldManyMN(0, 1, optional_meta)>>),
            "imported_property")

\* the variants of enum Property, built by its From impls
Into(variant, p) == Map(p, "Property::" \o variant)

concept_property ==
    Alt(<<Into("String", string_property),
          Into("Boolean", boolean_property),
          Into("Integer", integer_property),
          Into("Long", long_property),
          Into("DateTime", datetime_property),
          Into("Double", double_property),
          Into("Imported", imported_property)>>)

\* a line, or nothing at all
property_line_or_nothing ==
    Opt(Delimited(space0, concept_property, Tuple(<<space0, line_ending>>)))

\* delimited(space0, concept_property, tuple((space0, line_ending)))
property_line == Delimited(space0, concept_property, Tuple(<<space0, line_ending>>))

Declaration(name, properties) == [name |-> name, properties |-> properties]

declaration ==
    LET properties ==
            FoldMany0(property_line)
        no_props == Value(<<>>, Tuple(<<Char("{"), multispace0, Char("}")>>))
        props ==
            Sequence(<<Char("{"), space0, line_ending, properties, multispace0,
                       Char("}")>>, 4)
    IN  Map(Tuple(<<concept, space1, token_parser, space0,
                    Alt(<<props, no_props>>)>>),
            "Declaration")

\* the closures of declaration.rs
declaration_closure(f, v) ==
    CASE f = "imported_single" -> [class |-> v[4], is_array |-> FALSE]
      [] f = "imported_array" -> [class |-> v[4], is_array |-> TRUE]
      [] f = "imported_property" ->
            ImportedProperty(v[1].class, v[2], v[1].is_array, v[3] # <<>>)
      [] f = "Declaration" -> Declaration(v[3], v[5])
      [] OTHER -> [variant |-> Drop(f, Len("Property::")), value |-> v]

-----------------------------------------------------------------------------
(* Running a parser term *)

\* the closure named f applied to the value v
apply(f, v) ==
    CASE f \in {"major_only", "major_minor", "major_minor_patch", "version"} ->
            version_closure(f, v)
      [] f \in {"fqn_no_prerelease", "fqn_with_prerelease", "namespace"} ->
            namespace_closure(f, v)
      [] f \in {"i32::from_str_radix", "i64::from_str_radix", "f64::from_str"} ->
            numeric_closure(f, v)
      [] f \in {"u32::from_str_radix", "char::from_u32", "is_not_empty", "Literal",
                "Escaped", "push"} ->
            string_closure(f, v)
      [] f \in {"primitive_property", "only_start", "only_end", "full"} ->
            internal_closure(f, v)
      [] f \in {"imported_single", "imported_array", "imported_property",
                "Declaration"} \/ StartsWith(f, "Property::") ->
            declaration_closure(f, v)
      [] OTHER -> property_closure(f, v)

RECURSIVE parse(_, _)
RECURSIVE parse_seq(_, _, _, _)
RECURSIVE parse_alt(_, _, _, _)
RECURSIVE parse_many_till(_, _, _, _, _)
RECURSIVE parse_fold_many(_, _, _, _, _)
RECURSIVE prerelease_dot_token_parser(_)

\* tuple and its kin: r is the result of the k-th parser, acc the values of
\* the parsers before it; the first failure is the result
parse_seq(p, k, acc, r) ==
    CASE r.kind # "Ok" -> r
      [] r.kind = "Ok" /\ k = Len(p.ps) ->
            Ok(r.rest, Kept(Append(acc, r.val), p.keep))
      [] OTHER ->
            parse_seq(p, k + 1, Append(acc, r.val), parse(p.ps[k + 1], r.rest))

\* alt: r is the result of the k-th alternative; the next alternative on an
\* Err::Error only, the last one's error when every alternative fails
\* (CError::or keeps the later error)
parse_alt(p, k, s, r) ==
    CASE r.kind # "Error" \/ k = Len(p.ps) -> r
      [] OTHER -> parse_alt(p, k + 1, s, parse(p.ps[k + 1], s))

\* many_till(f, g): rg and rf are the results of g and f at s, g is looked
\* at first; acc holds the values of f so far
parse_many_till(p, s, acc, rg, rf) ==
    CASE rg.kind = "Ok" -> Ok(rg.rest, <<acc, rg.val>>)
      [] rg.kind \notin {"Ok", "Error"} -> rg
      [] rg.kind = "Error" /\ rf.kind # "Ok" -> rf
      [] rg.kind = "Error" /\ rf.kind = "Ok" /\ Len(rf.rest) = Len(s) -> Err(rf.rest)
      [] OTHER ->
            parse_many_till(p, rf.rest, Append(acc, rf.val),
                            parse(p.q, rf.rest), parse(p.p, rf.rest))

\* fold_many0 (max = -1) and fold_many_m_n: count items have been taken, acc
\* holds them, r is the result of the item parser at s
parse_fold_many(p, count, s, acc, r) ==
    CASE count = p.max -> Ok(s, acc)
      [] count # p.max /\ r.kind = "Error" -> IF count < p.min THEN r ELSE Ok(s, acc)
      [] count # p.max /\ r.kind \notin {"Ok", "Error"} -> r
      [] count # p.max /\ r.kind = "Ok" /\ Len(r.rest) = Len(s) -> Err(s)
      [] OTHER ->
            parse_fold_many(p, count + 1, r.rest, Append(acc, r.val),
                            parse(p.p, r.rest))

parse(p, s) ==
    CASE p.op = "tag" ->
            IF StartsWith(s, p.t) THEN Ok(Drop(s, Len(p.t)), p.t) ELSE Err(s)
      [] p.op = "tag_no_case" ->
            IF Len(s) >= Len(p.t) /\ ToLower(Take(s, Len(p.t))) = p.t
            THEN Ok(Drop(s, Len(p.t)), Take(s, Len(p.t)))
            ELSE Err(s)
      [] p.op = "one_of" ->
            IF s # "" /\ Head(s) \in p.set THEN Ok(Tail(s), Head(s)) ELSE Err(s)
      [] p.op = "anychar" ->
            IF s # "" THEN Ok(Tail(s), Head(s)) ELSE Err(s)
      [] p.op = "take_while" ->
            LET n == CountWhile(p.set, s)
            IN  IF n < p.min THEN Err(s) ELSE Ok(Drop(s, n), Take(s, n))
      [] p.op = "take_while_m_n" ->
            LET n == CountWhile(p.set, s)
            IN  IF n >= p.max THEN Ok(Drop(s, p.max), Take(s, p.max))
                ELSE IF n = Len(s) THEN Incomplete
                ELSE IF n < p.min THEN Err(s)
                ELSE Ok(Drop(s, n), Take(s, n))
      [] p.op = "is_not" ->
            LET n == CountUntil(p.set, s)
            IN  IF n = Len(s) THEN Incomplete
                ELSE IF n = 0 THEN Err(s)
                ELSE Ok(Drop(s, n), Take(s, n))
      [] p.op = "eof" -> IF s = "" THEN Ok(s, s) ELSE Err(s)
      [] p.op = "u128" ->
            LET d == LeadingDigits(s)
            IN  IF d = "" THEN Err(s)
                ELSE IF DecGreater(Canon(d), U128Max) THEN Err(s)
                ELSE Ok(Drop(s, Len(d)), Canon(d))
      [] p.op = "seq" -> parse_seq(p, 1, <<>>, parse(p.ps[1], s))
      [] p.op = "alt" -> parse_alt(p, 1, s, parse(p.ps[1], s))
      [] p.op = "opt" ->
            LET r == parse(p.p, s)
            IN  IF r.kind = "Ok" THEN Ok(r.rest, Some(r.val))
                ELSE IF r.kind = "Error" THEN Ok(s, None)
                ELSE r
      [] p.op = "recognize" ->
            LET r == parse(p.p, s)
            IN  IF r.kind = "Ok" THEN Ok(r.rest, Take(s, Len(s) - Len(r.rest))) ELSE r
      [] p.op = "not" ->
            LET r == parse(p.p, s)
            IN  IF r.kind = "Ok" THEN Err(s)
                ELSE IF r.kind = "Error" THEN Ok(s, <<>>)
                ELSE r
      [] p.op = "value" ->
            LET r == parse(p.p, s) IN IF r.kind = "Ok" THEN Ok(r.rest, p.v) ELSE r
      [] p.op = "map" ->
            LET r == parse(p.p, s)
            IN  IF r.kind = "Ok" THEN Ok(r.rest, apply(p.f, r.val)) ELSE r
      [] p.op = "map_res" ->
            LET r == parse(p.p, s)
            IN  IF r.kind # "Ok" THEN r
                ELSE IF apply(p.f, r.val) = None THEN Err(s)
                ELSE Ok(r.rest, apply(p.f, r.val)[1])
      [] p.op = "verify" ->
            LET r == parse(p.p, s)
            IN  IF r.kind # "Ok" THEN r
                ELSE IF apply(p.f, r.val) THEN r
                ELSE Err(s)
      [] p.op = "and_then" ->
            LET r == parse(p.p, s)
            IN  IF r.kind # "Ok" THEN r
                ELSE LET q == parse(p.q, r.val)
                     IN  IF q.kind = "Ok" THEN Ok(r.rest, q.val) ELSE q
      [] p.op = "many_till" ->
            parse_many_till(p, s, <<>>, parse(p.q, s), parse(p.p, s))
      [] p.op = "fold_many" ->
            IF p.max # -1 /\ p.min > p.max THEN Failure(s)
            ELSE parse_fold_many(p, 0, s, <<>>, parse(p.p, s))
      [] p.op = "or_error_at_input" ->
            LET r == parse(p.p, s)
            IN  IF r.kind \in {"Ok", "Panic"} THEN r ELSE Err(s)
      [] p.op = "fn" -> prerelease_dot_token_parser(s)

\* namespace.rs: the token of the first ".token" of the input, then the
\* pre-release text of the same input, cut token.len() + 1 before its end
prerelease_dot_token_parser(s) ==
    LET scan == parse(dot_token_scan, s)
        pre == parse(pre_release_token_parser, s)
    IN  IF scan.kind # "Ok" THEN scan
        ELSE IF pre.kind # "Ok" THEN pre
        ELSE IF end_of_pre(pre.val, scan.val[2][2]) = None THEN Panic
        ELSE Ok(pre.rest,
                <<Take(pre.val, end_of_pre(pre.val, scan.val[2][2])[1]), scan.val[2][2]>>)

-----------------------------------------------------------------------------
(* Inputs *)

\* the strings over the alphabet A of length n, and of length at most n
RECURSIVE StringsOfLen(_, _)
StringsOfLen(A, n) ==
    IF n = 0 THEN {""}
    ELSE {s \o c : s \in StringsOfLen(A, n - 1), c \in A}

StringsUpTo(A, n) == UNION {StringsOfLen(A, k) : k \in 0..n}

MaxLabelLen == 4

LabelAlphabet == {"0", "1", "a", ".", "-"}

PreReleaseInputs(n) ==
    {"-" \o l : l \in StringsUpTo(LabelAlphabet, n)}
    \cup {"pr123", "-pr123", "-0.1.pr123", "-alpha.1", "-001", "-0.3.7",
          "-x.7.z.92", "-x-y-z.--", "", "-0 x", "-01.2", "-a b"}

\* version-number texts: every form over a few digit strings, among them
\* u128::MAX and u128::MAX + 1, followed by a tail
NumStrings ==
    {"0", "1", "12", "007", U128Max, "340282366920938463463374607431768211456"}

VersionTails == {"", "-beta", "-0.1", " x", "\n", ".x", ".", ".5"}

VersionNumberTexts ==
    NumStrings
    \cup {a \o "." \o b : a \in NumStrings, b \in NumStrings}
    \cup {a \o "." \o b \o "." \o c :
            a \in {"1", "12", "007"}, b \in NumStrings, c \in NumStrings}

VersionInputs == {v \o t : v \in VersionNumberTexts, t \in VersionTails}

-----------------------------------------------------------------------------
(* Inputs of the namespace grammar *)

MaxSuffixLen == 5

SuffixAlphabet == {"a", "b", "0", ".", "-", " "}

FqnHeads == {"t@1.0.2", "t@12.13"}

FqnInputs(n) ==
    {h \o "-" \o x : h \in FqnHeads, x \in StringsUpTo(SuffixAlphabet, n)}
    \cup {"test@12.13.14.Foo", "test@12.13.14-pre.bar123",
          "test@12.13.14-pre.0.1.bar123", "test@1.0.0-pre.foo.bar",
          "test@12.13.14", "t@1.Foo", "t@1..Foo", "1@1.0.0.Foo"}

NsSpaces == {"", " ", "  ", "\t"}

NsNames == {"test", "a1", "a.b", "com.example.foo", "1a"}

NsNumbers == {<<"1">>, <<"1", "0">>, <<"1", "0", "2">>, <<"12", "13", "14">>}

NsLabels == {"", "beta", "pre.1", "0.3.7", "00"}

\* the text of a namespace statement from its parts
NsNumberText(n) ==
    IF Len(n) = 1 THEN n[1]
    ELSE IF Len(n) = 2 THEN n[1] \o "." \o n[2]
    ELSE n[1] \o "." \o n[2] \o "." \o n[3]

NsText(sp, name, n, label) ==
    "namespace" \o sp \o name \o "@" \o NsNumberText(n)
        \o (IF label = "" THEN "" ELSE "-" \o label)

NamespaceInputs ==
    {NsText(sp, name, n, label) :
        sp \in NsSpaces, name \in NsNames, n \in NsNumbers, label \in NsLabels}

-----------------------------------------------------------------------------
-----------------------------------------------------------------------------
(* The version grammar applied to one input *)

InitVersion ==
    /\ input \in PreReleaseInputs(MaxLabelLen) \cup VersionInputs
    /\ called = "none"
    /\ result = NotCalled

CallPreRelease ==
    /\ called' = "pre_release_parser"
    /\ result' = parse(pre_release_parser, input)
    /\ UNCHANGED input

CallVersionNumber ==
    /\ called' = "version_number_parser"
    /\ result' = parse(version_number_parser, input)
    /\ UNCHANGED input

CallVersion ==
    /\ called' = "version_parser"
    /\ result' = parse(version_parser, input)
    /\ UNCHANGED input

NextVersion == CallPreRelease \/ CallVersionNumber \/ CallVersion

SpecVersion == InitVersion /\ [][NextVersion]_vars

-----------------------------------------------------------------------------

(* The namespace grammar applied to one input *)

InitNamespace ==
    /\ input \in FqnInputs(MaxSuffixLen) \cup NamespaceInputs
    /\ called = "none"
    /\ result = NotCalled

CallFqn ==
    /\ called' = "fqn_parser"
    /\ result' = parse(fqn_parser, input)
    /\ UNCHANGED input

CallNamespace ==
    /\ called' = "namespace_parser"
    /\ result' = parse(namespace_parser, input)
    /\ UNCHANGED input

NextNamespace == CallFqn \/ CallNamespace

SpecNamespace == InitNamespace /\ [][NextNamespace]_vars

-----------------------------------------------------------------------------
(* The ranged-value grammar applied to one input *)

MaxInnerLen == 4

InnerAlphabet == {",", " ", "\t", "1", "-", "."}

\* bracket contents longer than MaxInnerLen that spell the three shapes
\* with blanks, signs, fractions and exponents
LongInners ==
    {"1 ,\t1", " 1 , 1 ", "+1,2", "1.5,2e3", "-1.5 , .5", "11 ,", "\t, 11",
     "2147483647,2147483648", "-2147483648,", ",9223372036854775807",
     ",9223372036854775808", "1,2,3", "1 1,2", "inf,nan"}

RangedInners(n) == StringsUpTo(InnerAlphabet, n) \cup LongInners

RangedHeads == {"length=[", "range = [\t"}

RangedTails == {"]", "", "] x"}

RangedInputs(n) ==
    {h \o i \o t : h \in RangedHeads, i \in RangedInners(n), t \in RangedTails}

InitRanged ==
    /\ input \in RangedInputs(MaxInnerLen)
    /\ called = "none"
    /\ result = NotCalled

CallStringLengthValidator ==
    /\ called = "none"
    /\ called' = "string_length_validator"
    /\ result' = parse(string_length_validator, input)
    /\ UNCHANGED input

CallIntegerDomainValidator ==
    /\ called = "none"
    /\ called' = "integer_domain_validator"
    /\ result' = parse(integer_domain_validator, input)
    /\ UNCHANGED input

CallLongDomainValidator ==
    /\ called = "none"
    /\ called' = "long_domain_validator"
    /\ result' = parse(long_domain_validator, input)
    /\ UNCHANGED input

CallDoubleDomainValidator ==
    /\ called = "none"
    /\ called' = "double_domain_validator"
    /\ result' = parse(double_domain_validator, input)
    /\ UNCHANGED input

NextRanged ==
    \/ CallStringLengthValidator
    \/ CallIntegerDomainValidator
    \/ CallLongDomainValidator
    \/ CallDoubleDomainValidator

SpecRanged == InitRanged /\ [][NextRanged]_vars

-----------------------------------------------------------------------------
(* The property grammar applied to one line *)

PrimitiveTypes == {"String", "Boolean", "Integer", "Long", "Double", "DateTime"}

\* the metaproperty texts a line is made of, per type: defaults, validators
\* and optional, and defaults whose value is not of the type
MetaTexts ==
    [String |-> {"default=\"a\"", "default='b'", "regex=/a/", "length=[1,2]",
                 "optional", "default=42", "default=\"a"},
     Boolean |-> {"default=true", "default=false", "optional", "default=42"},
     Integer |-> {"default=5", "default=-6", "range=[1,2]", "range=[,3]",
                  "optional", "default=x"},
     Long |-> {"default=5", "default=-6", "range=[1,2]", "optional", "default=x"},
     Double |-> {"default=1.5", "default=-42.0e3", "range=[,100.4]", "optional",
                 "default=42"},
     DateTime |-> {"default=2024-01-02", "default=2024-01-02T10:11:12Z",
                   "optional", "default=42"}]

MaxMetas == 3

\* the texts of metas, each after one space
RECURSIVE JoinMetas(_)
JoinMetas(metas) ==
    IF metas = <<>> THEN "" ELSE " " \o Head(metas) \o JoinMetas(Tail(metas))

\* the sequences of at most n elements of S
SeqsUpTo(S, n) == UNION {[1..k -> S] : k \in 0..n}

\* a String line with one metaproperty of each kind, in every order
OneOfEachString ==
    LET texts == <<"default=\"a\"", "regex=/a/", "length=[1,2]", "optional">>
    IN  {[i \in 1..4 |-> texts[f[i]]] :
            f \in {g \in [1..4 -> 1..4] : \A i, j \in 1..4 : g[i] = g[j] => i = j}}

PropertyHeads(type) == {"o " \o type \o " baz", "  o " \o type \o "[ ] baz"}

\* lines with one metaproperty more than the parser of the type takes
OneTooMany ==
    {"o String baz" \o JoinMetas(m) \o " " \o t :
        m \in OneOfEachString, t \in {"default='b'", "optional"}}
        \cup {"o Integer baz range=[1,2] default=5 optional default=-6",
              "o Integer baz default=5 default=-6 range=[1,2] optional",
              "o Double baz default=1.5 range=[,100.4] optional default=-42.0e3",
              "o Double baz range=[,100.4] default=1.5 default=-42.0e3 optional"}

\* lines whose name follows the type word or the array marker at once
NameAtOnce(type) == {"o " \o type \o "foo", "o " \o type \o "[]bar"}

PropertyInputs(n) ==
    UNION {{h \o JoinMetas(m) : h \in PropertyHeads(type),
                                m \in SeqsUpTo(MetaTexts[type], n)} :
              type \in PrimitiveTypes}
        \cup {"o String baz" \o JoinMetas(m) : m \in OneOfEachString}
        \cup OneTooMany
        \cup UNION {NameAtOnce(type) : type \in PrimitiveTypes}

InitProperty ==
    /\ input \in PropertyInputs(MaxMetas)
    /\ called = "none"
    /\ result = NotCalled

CallStringProperty ==
    /\ called = "none"
    /\ called' = "String"
    /\ result' = parse(string_property, input)
    /\ UNCHANGED input

CallBooleanProperty ==
    /\ called = "none"
    /\ called' = "Boolean"
    /\ result' = parse(boolean_property, input)
    /\ UNCHANGED input

CallIntegerProperty ==
    /\ called = "none"
    /\ called' = "Integer"
    /\ result' = parse(integer_property, input)
    /\ UNCHANGED input

CallLongProperty ==
    /\ called = "none"
    /\ called' = "Long"
    /\ result' = parse(long_property, input)
    /\ UNCHANGED input

CallDoubleProperty ==
    /\ called = "none"
    /\ called' = "Double"
    /\ result' = parse(double_property, input)
    /\ UNCHANGED input

CallDateTimeProperty ==
    /\ called = "none"
    /\ called' = "DateTime"
    /\ result' = parse(datetime_property, input)
    /\ UNCHANGED input

NextProperty ==
    \/ CallStringProperty
    \/ CallBooleanProperty
    \/ CallIntegerProperty
    \/ CallLongProperty
    \/ CallDoubleProperty
    \/ CallDateTimeProperty

SpecProperty == InitProperty /\ [][NextProperty]_vars

-----------------------------------------------------------------------------
(* The numeric parsers applied to one input *)

MaxNumLen == 4

NumAlphabet == {"+", "-", "0", "1", ".", "e", "E"}

\* texts longer than MaxNumLen: the limits of i32 and i64 and their
\* neighbours, leading zeros, the words of f64, literals followed by text
LongNumbers ==
    {s \o d \o t :
        s \in {"", "+", "-"},
        d \in {"2147483647", "2147483648", "3147483647", "0002147483647",
               "9223372036854775807", "9223372036854775808",
               "99999999999999999999", "147483647"},
        t \in {"", " x", ",1"}}
    \cup {s \o w \o t :
            s \in {"", "+", "-"},
            w \in {"inf", "INF", "infinity", "InfIniTY", "infinit", "nan", "NaN",
                   "42.42e-43", "42.42E43", "1.5e", "12.5.5"},
            t \in {"", "x"}}

NumericInputs(n) == StringsUpTo(NumAlphabet, n) \cup LongNumbers

InitNumeric ==
    /\ input \in NumericInputs(MaxNumLen)
    /\ called = "none"
    /\ result = NotCalled

CallPositiveIntegerValue ==
    /\ called = "none"
    /\ called' = "positive_integer_value"
    /\ result' = parse(positive_integer_value, input)
    /\ UNCHANGED input

CallIntegerValue ==
    /\ called = "none"
    /\ called' = "integer_value"
    /\ result' = parse(integer_value, input)
    /\ UNCHANGED input

CallLongValue ==
    /\ called = "none"
    /\ called' = "long_value"
    /\ result' = parse(long_value, input)
    /\ UNCHANGED input

CallDoubleValue ==
    /\ called = "none"
    /\ called' = "double_value"
    /\ result' = parse(double_value, input)
    /\ UNCHANGED input

NextNumeric ==
    \/ CallPositiveIntegerValue
    \/ CallIntegerValue
    \/ CallLongValue
    \/ CallDoubleValue

SpecNumeric == InitNumeric /\ [][NextNumeric]_vars

-----------------------------------------------------------------------------
(* date-time literals handed to common/datetime.rs *)

\* the longest run of fractional-second digits that is tried
MaxFraction == 4

DigitString == "0123456789"

TwoDigits ==
    {SubSeq(DigitString, i, i) \o SubSeq(DigitString, j, j) : i, j \in 1..10}

\* what stands in the place of one two-digit field
FieldTexts == TwoDigits \cup {"0a", "a0", "1"}

Fractions(n) == {""} \cup {"." \o Take("1234567890", k) : k \in 0..n}

Zones == {"", "Z", "z", "+04:30", "-05:15", "+0430", "+24:00", "-04:60", "+4:30"}

FieldInputs ==
    {"2024-" \o f \o "-04" : f \in FieldTexts}
        \cup {"2024-01-" \o f \o t : f \in FieldTexts, t \in {"", "T10:11:12Z"}}
        \cup {"2024-01-04T" \o f \o ":11:12Z" : f \in FieldTexts}
        \cup {"2024-01-04T10:" \o f \o ":12Z" : f \in FieldTexts}
        \cup {"2024-01-04T10:11:" \o f \o "Z" : f \in FieldTexts}
        \cup {"2024-01-04T10:11:12+" \o f \o ":30" : f \in FieldTexts}
        \cup {"2024-01-04T10:11:12.5-05:" \o f : f \in FieldTexts}

FormInputs(n) ==
    {"2024-01-04" \o t \o f \o z \o x :
        t \in {"", "T10:11:12", "T10:11", "t10:11:12"},
        f \in Fractions(n), z \in Zones, x \in {"", " x", "Z"}}

OddInputs ==
    {"", "2024", "202-01-04", "20245-01-04", "abcd-01-04", "2024/01/04",
     "2024-1-04", " 2024-01-04", "10:11:12", "T10:11:12Z"}

DatetimeInputs(n) == FieldInputs \cup FormInputs(n) \cup OddInputs

InitDatetime ==
    /\ input \in DatetimeInputs(MaxFraction)
    /\ called = "none"
    /\ result = NotCalled

CallYearMonthDay ==
    /\ called = "none"
    /\ called' = "year_month_day"
    /\ result' = parse(year_month_day, input)
    /\ UNCHANGED input

CallHourMinuteSecond ==
    /\ called = "none"
    /\ called' = "hour_minute_second"
    /\ result' = parse(hour_minute_second, input)
    /\ UNCHANGED input

CallDatetimeValue ==
    /\ called = "none"
    /\ called' = "datetime_value"
    /\ result' = parse(datetime_value, input)
    /\ UNCHANGED input

NextDatetime == CallYearMonthDay \/ CallHourMinuteSecond \/ CallDatetimeValue

SpecDatetime == InitDatetime /\ [][NextDatetime]_vars

-----------------------------------------------------------------------------
(* concepts handed to declaration.rs *)

\* the most property lines of a concept that are tried
MaxLines == 2

\* type words: the six keywords, other tokens, tokens that start with or
\* are the start of a keyword
TypeWords ==
    {"String", "Boolean", "Integer", "Long", "DateTime", "Double", "Address",
     "Stringy", "Longitude", "DateTimes", "Str", "string", "A1"}

PropertyLines ==
    {"o " \o t \o " foo" : t \in TypeWords}
        \cup {"o String s default=\"a\" optional", "o Integer[] i range=[1,5]",
              "o Address[] a optional", "o Double d default=1.5 optional",
              "o Address a  optional", "o Boolean b default=true"}

RECURSIVE JoinLines(_, _, _)
JoinLines(lines, indent, eol) ==
    IF lines = <<>> THEN ""
    ELSE indent \o Head(lines) \o eol \o JoinLines(Tail(lines), indent, eol)

ConceptInputs(n) ==
    {"concept Foo {" \o eol \o JoinLines(ls, indent, eol) \o indent \o "}" :
        ls \in SeqsUpTo(PropertyLines, n),
        indent \in {"", "  "}, eol \in {"\n", " \r\n"}}
        \cup {"concept Foo {}", "concept Foo { }", "concept Foo{\n\n}",
              "concept  Foo  {}x", "concept Foo", "conceptFoo {}",
              "concept Foo {\no String s}", "concept Foo { o String s\n}",
              "concept 1Foo {}", "concept Foo {\r}"}

DeclarationInputs(n) == ConceptInputs(n) \cup PropertyLines

InitDeclaration ==
    /\ input \in DeclarationInputs(MaxLines)
    /\ called = "none"
    /\ result = NotCalled

CallConceptProperty ==
    /\ called = "none"
    /\ called' = "concept_property"
    /\ result' = parse(concept_property, input)
    /\ UNCHANGED input

CallDeclaration ==
    /\ called = "none"
    /\ called' = "declaration"
    /\ result' = parse(declaration, input)
    /\ UNCHANGED input

NextDeclaration == CallConceptProperty \/ CallDeclaration

SpecDeclaration == InitDeclaration /\ [][NextDeclaration]_vars

-----------------------------------------------------------------------------
(* failures handed to error.rs *)

\* the most characters of a remaining input that are tried
MaxChars == 4

\* a, e acute, the euro sign, an emoji: one to four bytes
CodePoints == {97, 233, 8364, 128514}

ErrorKinds == {"Space", "Tag", "Char"}

\* the most labelled rules around a failure that are tried
MaxContexts == 2

ContextLabels == {"Declaration", "PropertyMeta"}

FailureInputs(n, m) ==
    [text : SeqsUpTo(CodePoints, n), kind : ErrorKinds,
     labels : SeqsUpTo(ContextLabels, m)]

InitError ==
    /\ input \in FailureInputs(MaxChars, MaxContexts)
    /\ called = "none"
    /\ result = NotCalled

CallFromErrorKind ==
    /\ called = "none"
    /\ called' = "from_error_kind"
    /\ result' = from_error_kind(input.text, input.kind)
    /\ UNCHANGED input

\* a primitive fails below the labelled rules input.labels
CallContext ==
    /\ called = "none"
    /\ called' = "context"
    /\ result' = context(input.labels, input.text,
                         from_error_kind(input.text, input.kind))
    /\ UNCHANGED input

NextError == CallFromErrorKind \/ CallContext

SpecError == InitError /\ [][NextError]_vars

-----------------------------------------------------------------------------
(* The model assembler: the top-level loop over namespace statements and  *)
(* concept declarations.  Its code is not among the sources; it is taken   *)
(* from the description of the assembler, over namespace.rs and            *)
(* declaration.rs as they are.                                             *)

\* the builder: an optional namespace slot and a growable declaration list
Builder(namespace, declarations) ==
    [namespace |-> namespace, declarations |-> declarations]

\* the loop in progress: the builder and the input not yet read
Building(builder, rest) == [kind |-> "Building", rest |-> rest, val |-> builder]

\* the finished model; finalizing a builder that never saw a namespace is
\* not protected against
Model(builder) ==
    IF builder.namespace = None THEN Panic
    ELSE [kind |-> "Model", rest |-> "",
          val |-> [namespace |-> builder.namespace[1],
                   declarations |-> builder.declarations]]

\* one definition: a namespace statement or else a declaration, after the
\* whitespace before it
definition == Preceded(multispace0, Alt(<<namespace_parser, declaration>>))

IsNamespace(val) == "version" \in DOMAIN val

IsDeclaration(val) == "properties" \in DOMAIN val

\* the first namespace kept: a later one does not replace it
set_namespace_keep_first(builder, namespace) ==
    IF builder.namespace = None THEN Builder(Some(namespace), builder.declarations)
    ELSE builder

\* the most recently matched namespace overwrites the slot
set_namespace(builder, namespace) ==
    Builder(Some(namespace), builder.declarations)

\* a declaration is appended in encounter order
push_declaration(builder, decl) ==
    Builder(builder.namespace, Append(builder.declarations, decl))

\* the input is exhausted when only whitespace is left
Exhausted(rest) == parse(multispace0, rest).rest = ""

-----------------------------------------------------------------------------
(* models handed to the assembler *)

\* the most definitions of a model that are tried
MaxDefinitions == 3

NamespaceTexts ==
    {"namespace a@1.0.0-x", "namespace b@2.0.0-rc1", "namespace c@3.0.0"}

DeclarationTexts == {"concept Foo {}", "concept Bar {\n  o String s optional\n}"}

\* a property line with text left on it, and a text that starts no definition
BrokenTexts == {"concept Bad {\no String s x\n}", "o String s"}

RECURSIVE JoinDefinitions(_, _)
JoinDefinitions(items, sep) ==
    IF items = <<>> THEN ""
    ELSE IF Len(items) = 1 THEN Head(items)
    ELSE Head(items) \o sep \o JoinDefinitions(Tail(items), sep)

ModelInputs(n) ==
    [items : SeqsUpTo(NamespaceTexts \cup DeclarationTexts \cup BrokenTexts, n),
     sep : {"\n", " \r\n\n"}, last : {"", "\n"}]

TextOf(in) == JoinDefinitions(in.items, in.sep) \o in.last

InitModel ==
    /\ input \in ModelInputs(MaxDefinitions)
    /\ called = "none"
    /\ result = Building(Builder(None, <<>>), TextOf(input))

MatchNamespace ==
    /\ result.kind = "Building"
    /\ ~Exhausted(result.rest)
    /\ LET r == parse(definition, result.rest)
       IN  /\ IsOk(r) /\ IsNamespace(r.val)
           /\ result' = Building(set_namespace(result.val, r.val), r.rest)
    /\ called' = "namespace"
    /\ UNCHANGED input

MatchDeclaration ==
    /\ result.kind = "Building"
    /\ ~Exhausted(result.rest)
    /\ LET r == parse(definition, result.rest)
       IN  /\ IsOk(r) /\ IsDeclaration(r.val)
           /\ result' = Building(push_declaration(result.val, r.val), r.rest)
    /\ called' = "declaration"
    /\ UNCHANGED input

\* the definitions read before the failure kept as the result
FailModelPartial ==
    /\ result.kind = "Building"
    /\ ~Exhausted(result.rest)
    /\ ~IsOk(parse(definition, result.rest))
    /\ result' = Model(result.val)
    /\ called' = "failed"
    /\ UNCHANGED input

\* neither a namespace nor a declaration where input is left: the failure is
\* the result, the builder is dropped
FailModel ==
    /\ result.kind = "Building"
    /\ ~Exhausted(result.rest)
    /\ LET r == parse(definition, result.rest)
       IN  /\ ~IsOk(r)
           /\ result' = r
    /\ called' = "failed"
    /\ UNCHANGED input

FinishModel ==
    /\ result.kind = "Building"
    /\ Exhausted(result.rest)
    /\ result' = Model(result.val)
    /\ called' = "finished"
    /\ UNCHANGED input

NextModel == MatchNamespace \/ MatchDeclaration \/ FailModel \/ FinishModel

SpecModel == InitModel /\ [][NextModel]_vars

-----------------------------------------------------------------------------
(* The repetitions of the grammar, one iteration at a time: nom's          *)
(* fold_many0 and fold_many_m_n                                             *)

\* the repetitions: the fragments of the three literals, the property lines
\* of a declaration, the metaproperties of the six property parsers
Repetition(loop) ==
    CASE loop = "single_quoted_string" -> FoldMany0(fragment({"'", "\\"}))
      [] loop = "double_quoted_string" -> FoldMany0(fragment({"\"", "\\"}))
      [] loop = "regex_value" -> FoldMany0(fragment({"/", "\\"}))
      [] loop = "declaration" -> FoldMany0(property_line)
      [] loop = "String" -> FoldManyMN(0, 4, string_property_meta)
      [] loop = "Boolean" -> FoldManyMN(0, 2, boolean_property_meta)
      [] loop = "Integer" -> FoldManyMN(0, 3, integer_property_meta)
      [] loop = "Long" -> FoldManyMN(0, 2, long_property_meta)
      [] loop = "Double" -> FoldManyMN(0, 3, double_property_meta)
      [] loop = "DateTime" -> FoldManyMN(0, 2, datetime_property_meta)

\* the loop in progress: the input not yet read and the count of items
Looping(rest, count) == [kind |-> "Looping", rest |-> rest, val |-> count]

\* the loop goes on: the cap is not reached and the item matched and took
\* at least one character
GoesOn(rep, rest, count) ==
    LET r == parse(rep.p, rest)
    IN  count # rep.max /\ IsOk(r) /\ Len(r.rest) # Len(rest)

\* the result of the loop when it does not go on: the cap is reached, the
\* item failed, or the item matched nothing, which is an error
Ended(rep, rest, count) ==
    LET r == parse(rep.p, rest)
    IN  IF count = rep.max THEN Ok(rest, count)
        ELSE IF r.kind = "Error" THEN (IF count < rep.min THEN r ELSE Ok(rest, count))
        ELSE IF ~IsOk(r) THEN r
        ELSE Err(rest)

\* the most characters, lines or metaproperties of a text that are tried
MaxLoopLen == 3

FragmentAlphabet == {"a", "n", " ", "'", "\"", "/", "\\"}

LoopLines == {"o String s", "  o Integer[] i range=[1,5] optional ", "o Address a", "o"}

LoopMetas ==
    [String |-> {"default=\"a\"", "optional", "length=[1", "regex=/a/"},
     Boolean |-> {"default=true", "optional", "default=42"},
     Integer |-> {"default=5", "range=[,3]", "default=x"},
     Long |-> {"default=-6", "range=[1,2]", "optional"},
     Double |-> {"default=1.5", "optional", "range=[,]"},
     DateTime |-> {"default=2024-01-02", "optional", "default=42"}]

LoopInputs(n) ==
    [loop : {"single_quoted_string", "double_quoted_string", "regex_value"},
     text : StringsUpTo(FragmentAlphabet, n)]
        \cup [loop : {"declaration"},
              text : {JoinLines(ls, "", "\n") \o "}" : ls \in SeqsUpTo(LoopLines, n)}]
        \cup UNION {[loop : {type},
                     text : {JoinMetas(m) \o t : m \in SeqsUpTo(LoopMetas[type], n),
                                                t \in {"", " "}}] :
                       type \in PrimitiveTypes}
        \cup [loop : {"String"}, text : {JoinMetas(m) \o " optional" : m \in OneOfEachString}]

InitRepetition ==
    /\ input \in LoopInputs(MaxLoopLen)
    /\ called = "none"
    /\ result = Looping(input.text, 0)

Iterate ==
    /\ result.kind = "Looping"
    /\ GoesOn(Repetition(input.loop), result.rest, result.val)
    /\ result' = Looping(parse(Repetition(input.loop).p, result.rest).rest,
                         result.val + 1)
    /\ called' = "iterated"
    /\ UNCHANGED input

EndLoop ==
    /\ result.kind = "Looping"
    /\ ~GoesOn(Repetition(input.loop), result.rest, result.val)
    /\ result' = Ended(Repetition(input.loop), result.rest, result.val)
    /\ called' = "ended"
    /\ UNCHANGED input

NextRepetition == Iterate \/ EndLoop

SpecRepetition == InitRepetition /\ [][NextRepetition]_vars

-----------------------------------------------------------------------------
(* pre-release labels with characters that are not ASCII *)

\* the most characters after the hyphen that are tried
MaxLabelChars == 3

\* a, 0, the dot, the blank; e acute (below 256, not a letter as a byte);
\* s caron and I with dot above (low bytes are those of a and 0); the euro
\* sign (low byte is no letter and no digit)
LabelCodePoints == {97, 48, 46, 32, 233, 353, 304, 8364}

LabelTexts(n) == {<<45>> \o l : l \in SeqsUpTo(LabelCodePoints, n)}

InitLabel ==
    /\ input \in LabelTexts(MaxLabelChars)
    /\ called = "none"
    /\ result = NotCalled

CallPreReleaseChars ==
    /\ called = "none"
    /\ called' = "pre_release_parser"
    /\ result' = pre_release_chars(input)
    /\ UNCHANGED input

\* the inner parser on the text after the hyphen
CallPreReleaseAllowedChars ==
    /\ called = "none"
    /\ called' = "pre_release_allowed_parser"
    /\ result' = pre_release_allowed_chars(Tail(input))
    /\ UNCHANGED input

NextLabel == CallPreReleaseChars \/ CallPreReleaseAllowedChars

SpecLabel == InitLabel /\ [][NextLabel]_vars

-----------------------------------------------------------------------------
(* The string and regex literals applied to one input *)

MaxPieces == 1

\* what a literal's body is made of: plain text, the escapes, escaped
\* whitespace, code-point escapes at the limits of the scalar values, the
\* delimiters, and backslash sequences outside the escape grammar
Pieces ==
    {"a", "b c", "'", "\"", "/",
     "\\n", "\\r", "\\t", "\\b", "\\f", "\\\\", "\\/", "\\\"", "\\'",
     "\\ ", "\\ \t\n ",
     "\\u{41}", "\\u{e9}", "\\u{1F602}", "\\u{10FFFF}", "\\u{D7FF}", "\\u{E000}",
     "\\u{D800}", "\\u{DFFF}", "\\u{110000}", "\\u{FFFFFF}",
     "\\u{}", "\\u{1234567}", "\\u41", "\\u{4g}", "\\x", "\\0", "\\"}

\* the concatenation of a sequence of strings
RECURSIVE Join(_)
Join(ss) == IF ss = <<>> THEN "" ELSE Head(ss) \o Join(Tail(ss))

\* at most MaxPieces pieces, alone or between plain text and an escape
Bodies(n) ==
    {pre \o Join(ps) \o post :
        pre \in {"", "a"}, post \in {"", "b c", "\\n"},
        ps \in SeqsUpTo(Pieces, n)}

Delimiters == {"'", "\"", "/"}

\* a body after an opening delimiter: closed by the same delimiter, closed
\* and followed by text, or unterminated; and a body without delimiters
LiteralInputs(n) ==
    {o \o b \o o \o c : o \in Delimiters, b \in Bodies(n), c \in {"", " x"}}
    \cup {o \o b : o \in Delimiters, b \in Bodies(n)}
    \cup Bodies(n)

InitLiteral ==
    /\ input \in LiteralInputs(MaxPieces)
    /\ called = "none"
    /\ result = NotCalled

CallStringValue ==
    /\ called = "none"
    /\ called' = "string_value"
    /\ result' = parse(string_value, input)
    /\ UNCHANGED input

CallRegexValue ==
    /\ called = "none"
    /\ called' = "regex_value"
    /\ result' = parse(regex_value, input)
    /\ UNCHANGED input

NextLiteral == CallStringValue \/ CallRegexValue

SpecLiteral == InitLiteral /\ [][NextLiteral]_vars

-----------------------------------------------------------------------------
(* Vocabulary of the properties below *)

\* s consists of characters of S only
AllIn(S, s) == CountWhile(S, s) = Len(s)

\* a pre-release label: letters, digits, dots and hyphens
IsLabelText(l) == AllIn(PreReleaseAllowed, l)

\* the characters of a label before its first "." or "-"
LeadingSegment(l) == Take(l, CountWhile(AlphaNum, l))

\* s goes on with "." and a digit
DotDigit(s) == Len(s) >= 2 /\ Head(s) = "." /\ Head(Tail(s)) \in Digit

FitsU128(d) == ~DecGreater(Canon(d), U128Max)

\* the position of the last "." of s, 0 when it has none
RECURSIVE LastDot(_)
LastDot(s) ==
    IF s = "" THEN 0
    ELSE IF SubSeq(s, Len(s), Len(s)) = "." THEN Len(s)
    ELSE LastDot(Take(s, Len(s) - 1))

IsToken(t) == parse(token_parser, t) = Ok("", t)

\* one or more tokens joined by "."
RECURSIVE IsDottedName(_)
IsDottedName(s) ==
    LET t == parse(token_parser, s)
    IN  /\ IsOk(t)
        /\ \/ t.rest = ""
           \/ Head(t.rest) = "." /\ IsDottedName(Tail(t.rest))

-----------------------------------------------------------------------------
(* Properties of the version grammar, under SpecVersion *)

\* C1: on "-" followed by a label, pre_release fails when the label's leading
\* segment is two or more digits starting with "0", and returns the whole
\* label when the leading segment is exactly "0".
C1_LeadingZeroRejected ==
    (called = "pre_release_parser" /\ StartsWith(input, "-")
        /\ IsLabelText(Tail(input))) =>
        LET label == Tail(input)
            seg == LeadingSegment(label)
        IN  /\ (Len(seg) >= 2 /\ AllIn(Digit, seg) /\ Head(seg) = "0")
                   => ~IsOk(result)
            /\ seg = "0" => result = Ok("", label)

\* C7: version_parser succeeds with no pre-release label when the version
\* number is followed by the end of the input and when it is followed by text
\* that does not start a pre-release; that text is left as the remaining input.
C7_OtherTextLeftUnconsumed ==
    called = "version_parser" =>
        LET v == parse(version_number_parser, input)
        IN  (IsOk(v) /\ (v.rest = "" \/ Head(v.rest) \notin {"-", "."}))
                => result = Ok(v.rest, Version(v.val))

\* what C9 says version_number returns on s, which starts with a digit: the
\* form with the most components, no more than its characters consumed
MostComponents(s) ==
    LET a == LeadingDigits(s)
        r1 == Drop(s, Len(a))
        b == LeadingDigits(Tail(r1))
        r2 == Drop(Tail(r1), Len(b))
        c == LeadingDigits(Tail(r2))
        r3 == Drop(Tail(r2), Len(c))
    IN  IF ~DotDigit(r1) THEN Ok(r1, ParsedVersion(Canon(a), "0", "0"))
        ELSE IF ~DotDigit(r2) THEN Ok(r2, ParsedVersion(Canon(a), Canon(b), "0"))
        ELSE Ok(r3, ParsedVersion(Canon(a), Canon(b), Canon(c)))

\* every digit string of that form is at most u128::MAX
ComponentsFitU128(s) ==
    LET a == LeadingDigits(s)
        r1 == Drop(s, Len(a))
        b == LeadingDigits(Tail(r1))
        r2 == Drop(Tail(r1), Len(b))
        c == LeadingDigits(Tail(r2))
    IN  /\ FitsU128(a)
        /\ DotDigit(r1) => FitsU128(b)
        /\ (DotDigit(r1) /\ DotDigit(r2)) => FitsU128(c)

\* C9 as stated: for all digit strings a, b, c, version_number gives (a, b, c)
\* on "a.b.c", (a, b, 0) on "a.b" not followed by "." and a digit, (a, 0, 0)
\* on "a" not followed by "." and a digit, consuming only that form.
C9_MostComponentsAnyDigits ==
    (called = "version_number_parser" /\ LeadingDigits(input) # "")
        => result = MostComponents(input)

\* C9, amended: the same, for digit strings whose values are at most
\* 2^128 - 1 (the width of u128).
C9_MostComponents ==
    (called = "version_number_parser" /\ LeadingDigits(input) # ""
        /\ ComponentsFitU128(input))
        => result = MostComponents(input)

\* each of the three forms has been parsed, one of them before further text
C9_Witness ==
    /\ called = "version_number_parser"
    /\ input = "12.007.1.5"
    /\ result = Ok(".5", ParsedVersion("12", "7", "1"))

-----------------------------------------------------------------------------
(* Properties of the namespace grammar, under SpecNamespace *)

\* C2: on name@version-suffix, where the suffix is made of letters, digits,
\* dots and hyphens and ends with "." and a token, fqn_parser returns the
\* suffix before its last "." as the pre-release label and the text after
\* that "." as the type name.  (Stated for the suffixes whose text before the
\* last "." the pre-release grammar accepts.)
C2_LabelEndsAtLastDot ==
    called = "fqn_parser" =>
        \A h \in FqnHeads :
            LET suffix == Drop(input, Len(h) + 1)
                k == LastDot(suffix)
            IN  (/\ StartsWith(input, h \o "-")
                 /\ IsLabelText(suffix)
                 /\ k > 0
                 /\ IsToken(Drop(suffix, k))
                 /\ parse(combined, suffix) = Ok("", suffix))
                    => /\ IsOk(result)
                       /\ result.rest = ""
                       /\ result.val.version.pre = Some(Take(suffix, k - 1))
                       /\ result.val.type_name = Drop(suffix, k)

\* C3: fqn_parser is total: on every input it returns a success or a failure
\* value and never aborts; the slice end computed in
\* prerelease_dot_token_parser is never negative and never past the end.
C3_FqnNeverAborts ==
    called = "fqn_parser" => result.kind \in {"Ok", "Error"}

\* the version a namespace statement built from a number and a label denotes
NsVersion(n, label) ==
    LET ver == ParsedVersion(n[1],
                             IF Len(n) >= 2 THEN n[2] ELSE "0",
                             IF Len(n) >= 3 THEN n[3] ELSE "0")
    IN  IF label = "" THEN Version(ver) ELSE VersionWithRelease(ver, label)

\* C8: namespace_parser accepts "namespace", one or more spaces, a dotted name
\* (one or more tokens joined by "."), "@" and a version identifier; it yields
\* the whole dotted name and the version, the label without its "-", and
\* consumes all of that text.
C8_DottedNamespaceName ==
    called = "namespace_parser" =>
        \A sp \in NsSpaces, name \in NsNames, n \in NsNumbers, label \in NsLabels :
            (/\ input = NsText(sp, name, n, label)
             /\ sp # ""
             /\ IsDottedName(name)
             /\ label # "" => parse(combined, label) = Ok("", label))
                => result = Ok("", Namespace(name, NsVersion(n, label)))

-----------------------------------------------------------------------------
(* Properties of the ranged-value grammar, under SpecRanged *)

\* s without the blanks at its end
RECURSIVE TrimEnd(_)
TrimEnd(s) ==
    IF s # "" /\ SubSeq(s, Len(s), Len(s)) \in Space
    THEN TrimEnd(Take(s, Len(s) - 1))
    ELSE s

\* s without the blanks around it
Trim(s) == TrimEnd(Drop(s, CountWhile(Space, s)))

\* text is one whole element
IsElement(text, parser) ==
    IsOk(parse(parser, text)) /\ parse(parser, text).rest = ""

\* a bound: absent when text is empty, the element's value otherwise
Bound(text, parser) ==
    IF text = "" THEN None ELSE Some(parse(parser, text).val)

\* What the three shapes give for the text after "keyword =": the text up
\* to the first "]" holds exactly one comma, each side of it is blank or
\* one element surrounded by blanks, and the sides are not both blank.
\* "reject" when the text has none of the three shapes.
ThreeShapes(s, parser) ==
    LET close == IndexOf("]", s)
        inside == SubSeq(s, 2, close - 1)
        comma == IndexOf(",", inside)
        left == Trim(Take(inside, comma - 1))
        right == Trim(Drop(inside, comma))
    IN  IF /\ s # "" /\ Head(s) = "["
           /\ close > 0
           /\ comma > 0
           /\ left = "" \/ IsElement(left, parser)
           /\ right = "" \/ IsElement(right, parser)
           /\ left # "" \/ right # ""
        THEN Ok(Drop(s, close), Ranged(Bound(left, parser), Bound(right, parser)))
        ELSE [kind |-> "reject"]

\* the two bounds a validator keeps
BoundsOf(validator) ==
    IF "lower" \in DOMAIN validator
    THEN Ranged(validator.lower, validator.upper)
    ELSE Ranged(validator.min_length, validator.max_length)

\* r is what the three shapes give for input, and holds a bound when Ok
RangedAsShapes(r, keyword, parser) ==
    LET ke == parse(Tuple(<<Tag(keyword), space0, Char("="), space0>>), input)
        e == IF IsOk(ke) THEN ThreeShapes(ke.rest, parser) ELSE [kind |-> "reject"]
    IN  /\ IF IsOk(e)
           THEN IsOk(r) /\ r.rest = e.rest /\ BoundsOf(r.val) = e.val
           ELSE r.kind = "Error"
        /\ IsOk(r) => (BoundsOf(r.val).start # None \/ BoundsOf(r.val).end # None)

\* C10: with any element parser, the ranged value accepts exactly [a,b],
\* [a,] and [,b], blanks allowed inside the brackets and around the comma,
\* gives (Some a, Some b), (Some a, None) and (None, Some b) for them, and
\* rejects the brackets that hold no bound; a result has a bound present.
C10_ExactlyThreeShapes ==
    /\ called = "string_length_validator"
            => RangedAsShapes(result, "length", positive_integer_value)
    /\ called = "integer_domain_validator"
            => RangedAsShapes(result, "range", integer_value)
    /\ called = "long_domain_validator"
            => RangedAsShapes(result, "range", long_value)
    /\ called = "double_domain_validator"
            => RangedAsShapes(result, "range", double_value)

C10_Witness ==
    /\ called = "string_length_validator"
    /\ input = "length=[\t, 11] x"
    /\ result = Ok(" x", [min_length |-> None, max_length |-> Some("11")])

\* the bracket pairs that hold no bound are rejected
C10_EmptyRejected ==
    (called # "none" /\ \E h \in RangedHeads, i \in {"", " ", ",", " ,\t"} :
                            input = h \o i \o "]")
        => result.kind = "Error"

-----------------------------------------------------------------------------
(* Properties of the property grammar, under SpecProperty.  called is the  *)
(* type whose property parser ran.                                          *)

\* the property parser of a type, and the grammar of the type's values
property_parser(type) ==
    CASE type = "String" -> string_property
      [] type = "Boolean" -> boolean_property
      [] type = "Integer" -> integer_property
      [] type = "Long" -> long_property
      [] type = "Double" -> double_property
      [] type = "DateTime" -> datetime_property

value_grammar(type) ==
    CASE type = "String" -> string_value
      [] type = "Boolean" -> boolean_value
      [] type = "Integer" -> integer_value
      [] type = "Long" -> long_value
      [] type = "Double" -> double_value
      [] type = "DateTime" -> datetime_value

\* the texts between the single spaces of s
RECURSIVE Split(_)
Split(s) ==
    LET i == IndexOf(" ", s)
    IN  IF i = 0 THEN <<s>> ELSE <<Take(s, i - 1)>> \o Split(Drop(s, i))

\* the line has the head of a property of the called type
HasHead == called \in PrimitiveTypes /\ IsOk(parse(primitive_property(called), input))

\* the head of the line and the metaproperty texts after it
HeadText ==
    Take(input, Len(input) - Len(parse(primitive_property(called), input).rest))

MetaTokens ==
    LET after == parse(primitive_property(called), input).rest
    IN  IF after = "" THEN <<>> ELSE Split(Tail(after))

\* the property of the line that carries the metaproperty tok alone
Alone(type, tok) == parse(property_parser(type), HeadText \o " " \o tok)

\* tok is one whole metaproperty of the type
IsMeta(type, tok) == IsOk(Alone(type, tok)) /\ Alone(type, tok).rest = ""

\* the keyword of a metaproperty text
KeywordOf(tok) == Take(tok, CountWhile(Lower, tok))

\* the field of a property that a keyword sets
Field(prop, keyword) ==
    CASE keyword = "default" -> prop.default_value
      [] keyword = "regex" -> prop.regex_validator
      [] keyword = "length" -> prop.length_validator
      [] keyword = "range" -> prop.domain_validator
      [] keyword = "optional" -> prop.is_optional

\* the field of prop that the metaproperty tok sets holds the value of tok
Holds(prop, type, tok) ==
    Field(prop, KeywordOf(tok)) = Field(Alone(type, tok).val, KeywordOf(tok))

\* every text of toks is a metaproperty of the type
AllMetas(type, toks) == \A i \in 1..Len(toks) : IsMeta(type, toks[i])

\* no two texts of toks have the same keyword
DistinctKinds(toks) ==
    \A i, j \in 1..Len(toks) : KeywordOf(toks[i]) = KeywordOf(toks[j]) => i = j

\* C4: a line on which a metaproperty keyword occurs more than once parses
\* with every metaproperty consumed, and each field holds the value of the
\* last occurrence of its keyword.
C4_DuplicatesAllConsumedLastWins ==
    (/\ HasHead
     /\ AllMetas(called, MetaTokens)
     /\ ~DistinctKinds(MetaTokens))
        => /\ IsOk(result)
           /\ result.rest = ""
           /\ \A i \in 1..Len(MetaTokens) :
                (\A j \in (i + 1)..Len(MetaTokens) :
                    KeywordOf(MetaTokens[j]) # KeywordOf(MetaTokens[i]))
                    => Holds(result.val, called, MetaTokens[i])

\* the orders of a sequence
Orders(toks) ==
    LET n == Len(toks)
    IN  {[i \in 1..n |-> toks[f[i]]] :
            f \in {g \in [1..n -> 1..n] : \A i, j \in 1..n : g[i] = g[j] => i = j}}

\* C5: a line with at most one metaproperty of each kind the type's parser
\* supports is consumed whole, and every order of its metaproperties gives
\* the same property.
C5_OrderIrrelevant ==
    (/\ HasHead
     /\ AllMetas(called, MetaTokens)
     /\ DistinctKinds(MetaTokens))
        => /\ IsOk(result)
           /\ result.rest = ""
           /\ \A p \in Orders(MetaTokens) :
                parse(property_parser(called), HeadText \o JoinMetas(p)) = result

C5_Witness ==
    /\ called = "String"
    /\ input = "o String baz optional length=[1,2] regex=/a/ default=\"a\""
    /\ result = parse(string_property,
                      "o String baz default=\"a\" regex=/a/ length=[1,2] optional")
    /\ IsOk(result)
    /\ result.val.is_optional
    /\ result.val.default_value = Some(<<97>>)
    /\ result.val.regex_validator = Some([pattern |-> <<97>>, flags |-> <<>>])
    /\ result.val.length_validator =
            Some([min_length |-> Some("1"), max_length |-> Some("2")])

\* the texts of toks from the i-th on
From(toks, i) == SubSeq(toks, i, Len(toks))

\* C6: a default= whose value is not of the type's grammar is not consumed;
\* the property is the one of the line without it, with no default value,
\* and the remaining input starts at the blank before the metaproperty.
C6_RejectedDefaultLeftUnconsumed ==
    HasHead =>
        \A i \in 1..Len(MetaTokens) :
            LET before == SubSeq(MetaTokens, 1, i - 1)
                left == JoinMetas(From(MetaTokens, i))
                without == parse(property_parser(called), HeadText \o JoinMetas(before))
            IN  (/\ AllMetas(called, before)
                 /\ DistinctKinds(before)
                 /\ \A j \in 1..(i - 1) : KeywordOf(before[j]) # "default"
                 /\ StartsWith(left, " default=")
                 /\ ~IsOk(parse(value_grammar(called), Drop(left, Len(" default=")))))
                    => /\ result = Ok(left, without.val)
                       /\ result.val.default_value = None

-----------------------------------------------------------------------------
(* Claims about the numeric parsers *)

\* the sign character a text starts with, "" when it starts with none
SignOf(s) == IF s # "" /\ Head(s) \in {"+", "-"} THEN Head(s) ELSE ""

\* the text after the sign
Unsigned(s) == Drop(s, Len(SignOf(s)))

\* the digits of a literal: those that follow its sign
DigitsOf(s) == LeadingDigits(Unsigned(s))

\* C11 (as stated): positive_integer_value fails on every bound that starts
\* with a sign, '-' or '+', and on every bound above 2^31 - 1; a bound it
\* accepts is written with digits only and is the value returned.
C11_SignedBoundRejected ==
    called = "positive_integer_value"
        => /\ SignOf(input) # "" => ~IsOk(result)
           /\ DecGreater(Canon(DigitsOf(input)), I32Max) => ~IsOk(result)
           /\ IsOk(result)
                => /\ LeadingDigits(input) # ""
                   /\ result.rest = Drop(input, Len(LeadingDigits(input)))
                   /\ result.val = Canon(LeadingDigits(input))

\* C11 (amended): positive_integer_value succeeds exactly on digits, after
\* an optional '+', whose value is at most 2^31 - 1; it consumes the sign and
\* the digits and returns their value.  A bound with '-' or above the range
\* fails, with the error at the input.
C11_MinusOrWideRejected ==
    called = "positive_integer_value"
        => IF /\ SignOf(input) # "-"
              /\ DigitsOf(input) # ""
              /\ ~DecGreater(Canon(DigitsOf(input)), I32Max)
           THEN result = Ok(Drop(Unsigned(input), Len(DigitsOf(input))),
                            Canon(DigitsOf(input)))
           ELSE result = Err(input)

C11_Witness ==
    /\ called = "positive_integer_value"
    /\ input = "+2147483647 x"
    /\ result = Ok(" x", "2147483647")

\* the value of the literal a text starts with, as a canonical decimal
LiteralValue(s) ==
    IF SignOf(s) = "-" /\ Canon(DigitsOf(s)) # "0"
    THEN "-" \o Canon(DigitsOf(s))
    ELSE Canon(DigitsOf(s))

\* the literal of s lies in [-minMagnitude, max]
InRange(s, max, minMagnitude) ==
    IF SignOf(s) = "-"
    THEN ~DecGreater(Canon(DigitsOf(s)), minMagnitude)
    ELSE ~DecGreater(Canon(DigitsOf(s)), max)

\* what the claim says of a signed integer parser of the given range
SignedAsClaimed(max, minMagnitude) ==
    IF DigitsOf(input) # "" /\ InRange(input, max, minMagnitude)
    THEN result = Ok(Drop(Unsigned(input), Len(DigitsOf(input))), LiteralValue(input))
    ELSE result = Err(input)

\* C12: integer_value succeeds on an optionally signed decimal literal iff
\* its value lies in [-2^31, 2^31 - 1], long_value iff it lies in
\* [-2^63, 2^63 - 1]; the value returned is exactly the literal's, and a
\* literal out of range fails at its start with nothing consumed.
C12_ExactWithinRange ==
    /\ called = "integer_value" => SignedAsClaimed("2147483647", "2147483648")
    /\ called = "long_value"
            => SignedAsClaimed("9223372036854775807", "9223372036854775808")

C12_Witness ==
    /\ called = "long_value"
    /\ input = "3147483647"
    /\ result = Ok("", "3147483647")

-----------------------------------------------------------------------------
(* Claims about the string and regex literals *)

\* the character each single-character escape stands for
SimpleEscapes ==
    ("n" :> 10) @@ ("r" :> 13) @@ ("t" :> 9) @@ ("b" :> 8) @@ ("f" :> 12)
    @@ ("\\" :> 92) @@ ("/" :> 47) @@ ("\"" :> 34) @@ ("'" :> 39)

\* no escape
NoEscape == [len |-> 0, val |-> <<>>]

\* the code-point escape at t = "u{H..H}...": its length and character
CodePointEscape(t) ==
    LET h == IF Len(t) > 2 THEN Take(Drop(t, 2), CountWhile(HexDigit, Drop(t, 2))) ELSE ""
    IN  IF /\ StartsWith(t, "u{")
           /\ Len(h) \in 1..6
           /\ StartsWith(Drop(t, 2 + Len(h)), "}")
           /\ HexVal(h) <= 1114111
           /\ ~(HexVal(h) >= 55296 /\ HexVal(h) <= 57343)
        THEN [len |-> 3 + Len(h), val |-> <<HexVal(h)>>]
        ELSE NoEscape

\* the escape that the text after a backslash starts with: how many
\* characters it takes and the characters it stands for; len 0 when the
\* text starts with no escape
EscapeAt(t) ==
    IF t = "" THEN NoEscape
    ELSE IF Head(t) \in DOMAIN SimpleEscapes
    THEN [len |-> 1, val |-> <<SimpleEscapes[Head(t)]>>]
    ELSE IF Head(t) \in {" ", "\t", "\n", "\r"}
    THEN [len |-> CountWhile({" ", "\t", "\n", "\r"}, t), val |-> <<>>]
    ELSE CodePointEscape(t)

\* A body read up to its closing delimiter q: "closed" with the characters
\* it denotes and the text after the delimiter, "bad" at a backslash that
\* starts no escape, "open" when the text ends before the delimiter.
RECURSIVE Decoded(_, _, _)
Decoded(s, q, acc) ==
    CASE s = "" -> [kind |-> "open", rest |-> "", val |-> acc]
      [] s # "" /\ Head(s) = q -> [kind |-> "closed", rest |-> Tail(s), val |-> acc]
      [] s # "" /\ Head(s) = "\\" /\ EscapeAt(Tail(s)).len = 0 ->
            [kind |-> "bad", rest |-> s, val |-> acc]
      [] s # "" /\ Head(s) = "\\" /\ EscapeAt(Tail(s)).len # 0 ->
            Decoded(Drop(s, 1 + EscapeAt(Tail(s)).len), q, acc \o EscapeAt(Tail(s)).val)
      [] OTHER -> Decoded(Tail(s), q, Append(acc, Ord(Head(s))))

\* the text starts with a quote
Quoted(s) == s # "" /\ Head(s) \in {"'", "\""}

\* C13: string_value decodes the body fragment by fragment: each of the nine
\* single-character escapes becomes its character, a backslash followed by
\* whitespace is dropped with all of that whitespace, \u{H..H} with 1 to 6
\* hex digits becomes the character of that code point; the literal fails
\* when the code point is no Unicode scalar value (or the backslash starts
\* no escape).
C13_DecodedFragmentByFragment ==
    (called = "string_value" /\ Quoted(input))
        => LET d == Decoded(Tail(input), Head(input), <<>>)
           IN  /\ d.kind = "closed" => result = Ok(d.rest, d.val)
               /\ d.kind = "bad" => ~IsOk(result)

C13_Witness ==
    /\ called = "string_value"
    /\ input = "\"a\\u{1F602}b c\" x"
    /\ result = Ok(" x", <<97, 128514, 98, 32, 99>>)

\* the text of s before the first c, all of s when there is none
Before(s, c) == Take(s, CountUntil({c}, s))

\* C14: the closing quote of string_value is the character that opened the
\* literal.  For a body without backslashes: the first occurrence of the
\* opening quote ends the literal, the other quote character is one of its
\* characters, the value is the text between the delimiters; a body in
\* which the opening quote does not occur again is no literal.
C14_ClosedBySameQuote ==
    (/\ called = "string_value"
     /\ Quoted(input)
     /\ "\\" \notin chars_of(Before(Tail(input), Head(input))))
        => LET body == Before(Tail(input), Head(input))
           IN  IF Len(body) < Len(Tail(input))
               THEN result = Ok(Drop(Tail(input), Len(body) + 1), Ords(body))
               ELSE ~IsOk(result)

C14_Witness ==
    /\ called = "string_value"
    /\ input = "'a\"b c'"
    /\ result = Ok("", <<97, 34, 98, 32, 99>>)

\* C15: regex_value reads a literal between two '/'.  The body is decoded
\* with the escape grammar of the quoted strings and '/' as the delimiter:
\* the first '/' that no backslash precedes ends the literal, '\/' gives a
\* '/', and a backslash that starts no escape makes the literal fail; a text
\* that does not start with '/' is no regex literal.
C15_RegexDelimitedBySlash ==
    called = "regex_value"
        => IF input # "" /\ Head(input) = "/"
           THEN LET d == Decoded(Tail(input), "/", <<>>)
                IN  /\ d.kind = "closed" => result = Ok(d.rest, d.val)
                    /\ d.kind = "bad" => result.kind = "Error"
           ELSE result = Err(input)

C15_Witness ==
    /\ called = "regex_value"
    /\ input = "/a\\/b c/ x"
    /\ result = Ok(" x", <<97, 47, 98, 32, 99>>)

C15_WitnessUnknownEscape ==
    /\ called = "regex_value"
    /\ input = "/a\\xb c/"
    /\ result.kind = "Error"

\* the number a two-digit text denotes
Val2(f) ==
    (IndexOf(SubSeq(f, 1, 1), DigitString) - 1) * 10
        + (IndexOf(SubSeq(f, 2, 2), DigitString) - 1)

Between(f, low, high) == f \in TwoDigits /\ low <= Val2(f) /\ Val2(f) <= high

\* the input is prefix, a two-character field, suffix
FieldIn(prefix, suffix) ==
    /\ StartsWith(input, prefix)
    /\ Len(input) = Len(prefix) + 2 + Len(suffix)
    /\ Drop(input, Len(prefix) + 2) = suffix

FieldAfter(prefix) == SubSeq(input, Len(prefix) + 1, Len(prefix) + 2)

Whole == result = Ok("", input)

\* every field of a literal is accepted exactly within its bounds, the month
\* from monthLow on
FieldBounds(monthLow) ==
    /\ called \in {"datetime_value", "year_month_day"}
        => /\ FieldIn("2024-", "-04")
                => (Whole <=> Between(FieldAfter("2024-"), monthLow, 19))
           /\ FieldIn("2024-01-", "")
                => (Whole <=> Between(FieldAfter("2024-01-"), 0, 31))
    /\ called = "datetime_value"
        => /\ FieldIn("2024-01-", "T10:11:12Z")
                => (Whole <=> Between(FieldAfter("2024-01-"), 0, 31))
           /\ FieldIn("2024-01-04T", ":11:12Z")
                => (Whole <=> Between(FieldAfter("2024-01-04T"), 0, 23))
           /\ FieldIn("2024-01-04T10:", ":12Z")
                => (Whole <=> Between(FieldAfter("2024-01-04T10:"), 0, 59))
           /\ FieldIn("2024-01-04T10:11:", "Z")
                => (Whole <=> Between(FieldAfter("2024-01-04T10:11:"), 0, 59))
           /\ FieldIn("2024-01-04T10:11:12+", ":30")
                => (Whole <=> Between(FieldAfter("2024-01-04T10:11:12+"), 0, 23))
           /\ FieldIn("2024-01-04T10:11:12.5-05:", "")
                => (Whole <=> Between(FieldAfter("2024-01-04T10:11:12.5-05:"), 0, 59))

\* C16 (as stated): datetime_value accepts a two-digit month field exactly
\* when it is in 01..19, a day field exactly in 00..31, an hour field exactly
\* in 00..23, minute and second fields exactly in 00..59.
C16_FieldBounds == FieldBounds(1)

\* C16 (amended): as above, with the month field accepted exactly in 00..19.
C16_FieldBoundsMonthFromZero == FieldBounds(0)

C16_Witness ==
    /\ called = "datetime_value"
    /\ input = "2024-00-04"
    /\ result = Ok("", "2024-00-04")

C16_WitnessHour ==
    /\ called = "datetime_value"
    /\ input = "2024-01-04T24:11:12Z"
    /\ result = Ok("T24:11:12Z", "2024-01-04")

AllDigits(t) == \A i \in 1..Len(t) : SubSeq(t, i, i) \in Digit

\* YYYY-MM-DD
IsDate(t) ==
    /\ Len(t) = 10
    /\ AllDigits(SubSeq(t, 1, 4))
    /\ SubSeq(t, 5, 5) = "-"
    /\ Between(SubSeq(t, 6, 7), 0, 19)
    /\ SubSeq(t, 8, 8) = "-"
    /\ Between(SubSeq(t, 9, 10), 0, 31)

\* THH:mm:ss
IsTime(t) ==
    /\ Len(t) = 9
    /\ SubSeq(t, 1, 1) = "T"
    /\ Between(SubSeq(t, 2, 3), 0, 23)
    /\ SubSeq(t, 4, 4) = ":"
    /\ Between(SubSeq(t, 5, 6), 0, 59)
    /\ SubSeq(t, 7, 7) = ":"
    /\ Between(SubSeq(t, 8, 9), 0, 59)

\* nothing, or a dot and one to three digits
IsFraction(t) ==
    \/ t = ""
    \/ /\ Len(t) \in 2..4
       /\ SubSeq(t, 1, 1) = "."
       /\ AllDigits(Drop(t, 1))

\* Z or +HH:mm or -HH:mm
IsZone(t) ==
    \/ t = "Z"
    \/ /\ Len(t) = 6
       /\ SubSeq(t, 1, 1) \in {"+", "-"}
       /\ Between(SubSeq(t, 2, 3), 0, 23)
       /\ SubSeq(t, 4, 4) = ":"
       /\ Between(SubSeq(t, 5, 6), 0, 59)

\* t is a date, or a date, a time, a fraction and a zone
IsForm(t) ==
    \/ IsDate(t)
    \/ /\ Len(t) > 19
       /\ IsDate(Take(t, 10))
       /\ IsTime(SubSeq(t, 11, 19))
       /\ \E k \in 0..(Len(t) - 20) :
            IsFraction(SubSeq(t, 20, 19 + k)) /\ IsZone(Drop(t, 19 + k))

FormLengths(s) == {n \in 0..Len(s) : IsForm(Take(s, n))}

Longest(S) == CHOOSE n \in S : \A m \in S : m <= n

\* C17: on an input that starts with an accepted date-time form,
\* datetime_value consumes the longest form that is a prefix of the input,
\* and its value is the consumed text: value followed by rest is the input.
C17_LongestFormVerbatim ==
    (called = "datetime_value" /\ FormLengths(input) # {})
        => /\ result = Ok(Drop(input, Longest(FormLengths(input))),
                          Take(input, Longest(FormLengths(input))))
           /\ result.val \o result.rest = input

C17_Witness ==
    /\ called = "datetime_value"
    /\ input = "2024-01-04T10:11:12.123+04:30 x"
    /\ FormLengths(input) = {10, 29}
    /\ result = Ok(" x", "2024-01-04T10:11:12.123+04:30")

C17_WitnessFourDigits ==
    /\ called = "datetime_value"
    /\ input = "2024-01-04T10:11:12.1234Z"
    /\ result = Ok("T10:11:12.1234Z", "2024-01-04")

IsDigits(t) == t # "" /\ AllDigits(t)

\* digits with an optional sign
IsDecimal(t) ==
    \/ IsDigits(t)
    \/ Len(t) > 1 /\ Head(t) \in {"+", "-"} /\ IsDigits(Tail(t))

\* e or E and a decimal
IsExponent(t) == t # "" /\ Head(t) \in {"e", "E"} /\ IsDecimal(Tail(t))

\* .digits with an optional exponent
IsDotDigits(t) ==
    /\ t # ""
    /\ Head(t) = "."
    /\ \E k \in 2..Len(t) :
         IsDigits(SubSeq(t, 2, k)) /\ (k = Len(t) \/ IsExponent(Drop(t, k)))

\* digits, an optional .digits, an exponent
IsDigitsExponent(t) ==
    \E i \in 1..Len(t) : \E j \in i..Len(t) :
        /\ IsDecimal(Take(t, i))
        /\ j = i \/ (SubSeq(t, i + 1, i + 1) = "." /\ IsDigits(SubSeq(t, i + 2, j)))
        /\ IsExponent(Drop(t, j))

\* digits, a dot, optional digits
IsDigitsDot(t) ==
    \E i \in 1..(Len(t) - 1) :
        /\ IsDecimal(Take(t, i))
        /\ SubSeq(t, i + 1, i + 1) = "."
        /\ i + 1 = Len(t) \/ IsDigits(Drop(t, i + 1))

\* inf, infinity or nan in any case, with an optional sign
IsSpecialWord(t) ==
    \E sign \in {"", "+", "-"} : \E word \in {"inf", "infinity", "nan"} :
        ToLower(t) = sign \o word

IsFloatShape(t) ==
    IsDotDigits(t) \/ IsDigitsExponent(t) \/ IsDigitsDot(t) \/ IsSpecialWord(t)

\* C18: double_value succeeds exactly on the texts that start with one of
\* the shapes .digits [exponent], digits [.digits] exponent, digits. [digits],
\* or inf, infinity, nan in any case with an optional sign.
C18_FloatShapes ==
    called = "double_value"
        => (IsOk(result) <=> \E n \in 1..Len(input) : IsFloatShape(Take(input, n)))

\* the property line "o T foo" of a type word T
LineOf(t) == "o " \o t \o " foo"

\* C20: concept_property reads "o T foo", with T a token that is none of the
\* six primitive keywords, as a reference property of class T named foo,
\* also when T begins with a primitive keyword.
C20_OtherTokensAreReferences ==
    called = "concept_property"
        => \A t \in TypeWords \ PrimitiveTypes :
             input = LineOf(t)
                => result = Ok("", [variant |-> "Imported",
                                    value |-> ImportedProperty(t, "foo", FALSE, FALSE)])

RECURSIVE SplitLines(_)
\* the texts between the line feeds of s
SplitLines(s) ==
    IF "\n" \notin chars_of(s) THEN <<s>>
    ELSE <<Before(s, "\n")>> \o SplitLines(Drop(s, Len(Before(s, "\n")) + 1))

Blank == {" ", "\t", "\r"}

\* s without the blanks and carriage returns at its ends
TrimLine(s) ==
    LET inked == {i \in 1..Len(s) : SubSeq(s, i, i) \notin Blank}
    IN  IF inked = {} THEN ""
        ELSE SubSeq(s, CHOOSE i \in inked : \A j \in inked : i <= j,
                       CHOOSE i \in inked : \A j \in inked : j <= i)

\* the property a well-formed line denotes
PropertyOf(line) ==
    IF \E t \in TypeWords \ PrimitiveTypes : line = LineOf(t)
    THEN [variant |-> "Imported",
          value |-> ImportedProperty(SubSeq(line, 3, Len(line) - 4), "foo", FALSE, FALSE)]
    ELSE parse(concept_property, line).val

\* input is "concept Foo {", property lines of the model, "}"
ConceptOfLines(lines) ==
    /\ Len(lines) >= 2
    /\ TrimLine(lines[1]) = "concept Foo {"
    /\ TrimLine(lines[Len(lines)]) = "}"
    /\ \A i \in 2..(Len(lines) - 1) : TrimLine(lines[i]) \in PropertyLines

\* C19: a concept of n well-formed property lines is read as the
\* Declaration of its name with the n properties of the lines, in the order
\* of the lines; "concept Foo {}" has no properties.
C19_PropertiesInSourceOrder ==
    called = "declaration"
        => /\ input = "concept Foo {}" => result = Ok("", Declaration("Foo", <<>>))
           /\ ConceptOfLines(SplitLines(input))
                => LET lines == SplitLines(input)
                   IN  result = Ok("", Declaration("Foo",
                            [i \in 1..(Len(lines) - 2) |-> PropertyOf(TrimLine(lines[i + 1]))]))

-----------------------------------------------------------------------------
(* Claims about the shared fields, the errors and the assembly *)

\* the two flags of a parsed property, when it carries them
HasFlags(prop, is_optional, is_array) ==
    /\ "is_optional" \in DOMAIN prop
    /\ "is_array" \in DOMAIN prop
    /\ prop.is_optional = is_optional
    /\ prop.is_array = is_array

\* C21: each of the six primitive property parsers reports is_optional and
\* is_array, false by default; a trailing optional is consumed and gives
\* is_optional = true, and is_array is true exactly when the array marker
\* follows the type word.
C21_FlagsOnEveryVariant ==
    called \in PrimitiveTypes
        => \A head \in PropertyHeads(called) : \A meta \in {"", " optional"} :
             input = head \o meta
                => /\ IsOk(result)
                   /\ result.rest = ""
                   /\ HasFlags(result.val, meta # "", "[" \in chars_of(head))

\* the labels an error value holds: a CError has one code and one position,
\* and only the code Context has a label
LabelsOf(e) ==
    IF "code" \in DOMAIN e /\ e.code.variant = "Context" THEN <<e.code.label>>
    ELSE <<>>

\* C22: an error that went up through labelled rules carries the label of
\* each of them, the outermost first, and the remaining input of the failure.
C22_EveryLabelCarried ==
    (called = "context" /\ "code" \in DOMAIN result)
        => /\ LabelsOf(result) = input.labels
           /\ result.input = input.text

IsPrefix(t, s) == Len(t) <= Len(s) /\ SubSeq(s, 1, Len(t)) = t

\* C29: the error "expected Space" is built for every remaining input, and
\* its found text is a prefix of that input of at most five characters.
C29_ExpectedSpaceNeverAborts ==
    (called = "from_error_kind" /\ input.kind = "Space")
        => /\ "code" \in DOMAIN result
           /\ result.code.variant = "ExpectedFound"
           /\ IsPrefix(result.code.found, input.text)
           /\ Len(result.code.found) <= FoundBytes

\* the keyword and the value parser of the validator that was called
ValidatorOf(name) ==
    CASE name = "string_length_validator" ->
            [keyword |-> length, parser |-> positive_integer_value]
      [] name = "integer_domain_validator" ->
            [keyword |-> range, parser |-> integer_value]
      [] name = "long_domain_validator" -> [keyword |-> range, parser |-> long_value]
      [] name = "double_domain_validator" ->
            [keyword |-> range, parser |-> double_value]

\* the results of the three alternatives of a ranged value, each tried where
\* the opening bracket ends
RangedAlternatives(name, text) ==
    LET v == ValidatorOf(name)
        open == parse(ranged_open(v.keyword), text)
    IN  IF ~IsOk(open) THEN <<>>
        ELSE <<parse(full(v.parser), open.rest),
               parse(only_start(v.parser), open.rest),
               parse(only_end(v.parser), open.rest)>>

AllFail(rs) == rs # <<>> /\ \A i \in DOMAIN rs : rs[i].kind = "Error"

\* the least remaining input among failures: the deepest position
Deepest(rs) ==
    CHOOSE n \in {Len(rs[i].rest) : i \in DOMAIN rs} :
        \A i \in DOMAIN rs : n <= Len(rs[i].rest)

\* C23: when every alternative of an alternation fails, the error surfaced
\* is at the deepest position that any of the alternatives reached.
C23_DeepestFailureSurfaced ==
    (called \in {"string_length_validator", "integer_domain_validator",
                 "long_domain_validator", "double_domain_validator"}
        /\ AllFail(RangedAlternatives(called, input)))
        => /\ result.kind = "Error"
           /\ Len(result.rest) = Deepest(RangedAlternatives(called, input))

IsNamespaceText(t) == t \in NamespaceTexts

IsDeclarationText(t) == t \in DeclarationTexts

\* the values of the definitions of one kind, each parsed on its own, in the
\* order of the input
ValuesOf(p, texts) == [i \in DOMAIN texts |-> parse(p, texts[i]).val]

NamespacesOf(in) == ValuesOf(namespace_parser, SelectSeq(in.items, IsNamespaceText))

DeclarationsOf(in) == ValuesOf(declaration, SelectSeq(in.items, IsDeclarationText))

\* the finished model has the last namespace of the input and the
\* declarations of the input, once each and in their order
LastNamespaceAllDeclarations ==
    result.kind = "Model"
        => /\ NamespacesOf(input) # <<>>
           /\ result.val.namespace = NamespacesOf(input)[Len(NamespacesOf(input))]
           /\ result.val.declarations = DeclarationsOf(input)

\* a step that matches a namespace fills the slot with it and leaves the
\* list alone; a step that matches a declaration appends it and leaves the
\* slot alone
OneSlotOrOneItem ==
    /\ (result'.kind = "Building" /\ called' = "namespace")
        => /\ result'.val.declarations = result.val.declarations
           /\ result'.val.namespace # None
           /\ result'.val.namespace[1] = parse(definition, result.rest).val
    /\ (result'.kind = "Building" /\ called' = "declaration")
        => /\ result'.val.namespace = result.val.namespace
           /\ result'.val.declarations =
                 Append(result.val.declarations, parse(definition, result.rest).val)

\* C24: after any interleaving of namespace statements and declarations the
\* builder holds the most recently matched namespace and every matched
\* declaration once, in encounter order; matching one kind leaves the other
\* part of the builder unchanged.
C24_BuilderFoldsInOrder == []LastNamespaceAllDeclarations /\ [][OneSlotOrOneItem]_vars

\* a model finished from two different namespaces around a declaration
C24_Witness ==
    /\ result.kind = "Model"
    /\ Len(NamespacesOf(input)) = 2
    /\ NamespacesOf(input)[1] # NamespacesOf(input)[2]
    /\ Len(DeclarationsOf(input)) = 1
    /\ IsDeclarationText(input.items[2])

HasBroken(in) == \E i \in DOMAIN in.items : in.items[i] \in BrokenTexts

\* every definition of the input, taken alone, is read in full
EveryDefinitionParses(in) ==
    \A i \in DOMAIN in.items :
        LET r == parse(definition, in.items[i]) IN IsOk(r) /\ r.rest = ""

\* C25: a Model is the result only when the whole input was read; when some
\* part of the input cannot be parsed the result is one error and no Model,
\* whatever was read before it.
C25_NoPartialResult ==
    /\ result.kind = "Model"
        => /\ result.rest = ""
           /\ EveryDefinitionParses(input)
    /\ (HasBroken(input) /\ result.kind # "Building")
        => /\ result.kind = "Error"
           /\ result.val = <<>>
           /\ result.rest # ""

\* the failure comes after a namespace and a declaration were read
C25_Witness ==
    /\ result.kind = "Error"
    /\ Len(input.items) = 3
    /\ IsNamespaceText(input.items[1])
    /\ IsDeclarationText(input.items[2])
    /\ input.items[3] = "concept Bad {\no String s x\n}"

\* the most metaproperties the parser of a type takes
Cap(type) ==
    CASE type = "String" -> 4
      [] type \in {"Integer", "Double"} -> 3
      [] type \in {"Boolean", "DateTime", "Long"} -> 2

\* the first n of toks, or all of them
UpTo(toks, n) == SubSeq(toks, 1, IF Len(toks) < n THEN Len(toks) ELSE n)

\* C26: a property parser applies at most as many metaproperties as the cap
\* of its type: four for String, three for Integer and Double, two for
\* Boolean, DateTime and Long; when the metaproperties up to the cap are read
\* in full, the text after them stays in the remaining input and the
\* property is the one of the line without it.
C26_MetapropertiesCapped ==
    HasHead =>
        LET capped ==
                parse(property_parser(called),
                      HeadText \o JoinMetas(UpTo(MetaTokens, Cap(called))))
        IN  (IsOk(capped) /\ capped.rest = "")
                => /\ IsOk(result)
                   /\ result.rest = JoinMetas(From(MetaTokens, Cap(called) + 1))
                   /\ result.val = capped.val

\* a fifth metaproperty of a String line is left and changes nothing
C26_Witness ==
    /\ called = "String"
    /\ input = "o String baz default=\"a\" regex=/a/ length=[1,2] optional default='b'"
    /\ IsOk(result)
    /\ result.rest = " default='b'"
    /\ result.val.default_value = Some(<<97>>)
    /\ result.val.is_optional

\* the character of the line right before the name of the parsed property
BeforeName ==
    LET head == parse(primitive_property(called), input)
        at == Len(input) - Len(head.rest) - Len(head.val.name)
    IN  Take(Drop(input, at - 1), 1)

\* C28: a property parser accepts a line only when at least one whitespace
\* character stands between the type word, or its array marker, and the name.
C28_BlankBeforeName ==
    (called \in PrimitiveTypes /\ IsOk(result)) => BeforeName \in Space

\* the code points of the ASCII letters and digits, the dot and the hyphen
LabelChars == (48..57) \cup (65..90) \cup (97..122) \cup {46, 45}

\* C30: every character of an accepted pre-release label is an ASCII letter,
\* an ASCII digit, a dot or a hyphen, and the label ends before the first
\* character that is none of them, every character that is not ASCII included.
C30_LabelOfAsciiOnly ==
    (called \in {"pre_release_parser", "pre_release_allowed_parser"} /\ IsOk(result))
        => /\ \A i \in 1..Len(result.val) : result.val[i] \in LabelChars
           /\ result.rest # <<>> => result.rest[1] \notin LabelChars

\* the item of a loop that is tried once more does not match the empty text
ItemTakesSomething ==
    (result.kind = "Looping" /\ result.val # Repetition(input.loop).max)
        => LET r == parse(Repetition(input.loop).p, result.rest)
           IN  IsOk(r) => Len(r.rest) < Len(result.rest)

\* a step of a loop leaves less input to read, or it ends the loop
ShrinksOrEnds ==
    result.kind = "Looping"
        => result'.kind # "Looping" \/ Len(result'.rest) < Len(result.rest)

\* C27: every repetition ends on every input: an iteration either takes at
\* least one character, so that the input left gets strictly shorter, or
\* ends the repetition, and no item of a repetition matches the empty text.
C27_RepetitionsEnd == []ItemTakesSomething /\ [][ShrinksOrEnds]_vars

\* a declaration's fold of property lines ended after two lines
C27_Witness ==
    /\ input.loop = "declaration"
    /\ called = "ended"
    /\ result = Ok("}", 2)
====
